---- MODULE Spec2Model ----
(***************************************************************************)
(* Model of the QuantumStore core pipeline:                                *)
(*   type resolution      backend/utils/file_utils.py                      *)
(*   content classifier   backend/classifier.py                            *)
(*   schema inference     backend/processors/json_processor.py             *)
(*   similarity grouping  backend/rules/rules.py                           *)
(* Text is modelled as sequences of one-character strings so that          *)
(* lower(), startswith(), `in` and the path functions are computed, and    *)
(* bytes as sequences of byte values.  Fractions are kept exact: a float   *)
(* n/d is the pair <<n, d>>, a hard-coded confidence 0.85 is the integer   *)
(* 85 (hundredths).                                                        *)
(***************************************************************************)
EXTENDS Integers, Sequences, FiniteSets, TLC

VARIABLES
    \* ---- type resolver (file_utils.py) and the classifier's own detector
    filename,       \* the filename argument
    mime_type,      \* the declared MIME string; <<>> is None / ""
    file_bytes,     \* the leading bytes; <<>> is None / b""
    rpc,            \* position inside detect_file_type_comprehensive
    file_type,      \* the value it returned ("" while it runs)
    method,         \* which METHOD's return statement produced file_type
    preview_hint,   \* preview["type"] given to _detect_type ("" = no preview)
    ctype,          \* what AdvancedClassifier._detect_type returned ("" = not run)
    \* ---- content classifier (classifier.py)
    metadata,       \* classify_file's metadata argument
    preview,        \* classify_file's preview argument
    classification, \* what classify_file returned, or the raised exception
    \* ---- schema inference (json_processor.py)
    json_file,      \* the content of the file at file_path
    ijson_available,\* IJSON_AVAILABLE: whether the streaming parser was importable
    json_file_size, \* the file_size argument of the analyze call in progress
    jpc,            \* position inside analyze: "idle", "stream_loop", "schema_loop"
    items_pos,      \* how many array items the running for-loop has consumed
    record_count,   \* _stream_analyze_array's record_count
    samples,        \* _stream_analyze_array's samples
    field_types,    \* defaultdict(Counter): normalized key -> Counter of types
    all_keys,       \* set of (normalized_key, key)
    reasoning_log,  \* self.reasoning_log
    result,         \* what the last analyze call returned
    returned,       \* what each array path last returned to its caller
    \* ---- similarity grouping (rules.py)
    files,          \* the list given to auto_group_files
    gpc,            \* "ready" before the grouping run, "done" after it
    similar_groups, \* the dict _find_similar_files returned
    auto_groups,    \* the dict auto_group_files returned
    rule_log,       \* the rule engine's self.reasoning_log
    \* ---- metadata store (store.py)
    stored_metadata,\* file id -> the dict saved as metadata/<id>.json
    group_indices,  \* category -> the content of groups/<category>/index.json
    utc_clock,      \* the latest value datetime.utcnow() returned, in ticks
    store_call,     \* the last add_file_to_group call: arguments and return value
    \* ---- JSON sanitizer (serializers.py) and its two kinds of caller
    py_value,       \* the value given to sanitize_for_json
    ser_pc,         \* "ready" before the call, "done" after it
    sanitized,      \* what sanitize_for_json returned, or the raised exception
    emitted,        \* how encoding the sanitized value ended, and for whom
    log_lists,      \* the list objects analyze has created, by identity
    self_reasoning_log, \* which list the attribute self.reasoning_log names
    analyze_calls,  \* the two calls in progress: file, size, position, returned dict
    repeat_call     \* a caller classifying one file twice: stage and first result

resolverVars == <<filename, mime_type, file_bytes, rpc, file_type, method,
                  preview_hint, ctype>>
classifierVars == <<metadata, preview, classification>>
jsonVars == <<json_file, ijson_available, json_file_size, jpc, items_pos, record_count,
              samples, field_types, all_keys, reasoning_log, result, returned>>
groupVars == <<files, gpc, similar_groups, auto_groups, rule_log>>
storeVars == <<stored_metadata, group_indices, utc_clock, store_call>>
serVars == <<py_value, ser_pc, sanitized, emitted>>
concVars == <<log_lists, self_reasoning_log, analyze_calls>>
repeatVars == <<repeat_call>>
vars == <<resolverVars, classifierVars, jsonVars, groupVars, storeVars, serVars, concVars,
          repeatVars>>

\* no analyze call has returned yet
NotReturned == [pending |-> TRUE]

\* the processor and the rule engine while another component is exercised
JsonIdle ==
    /\ json_file = [kind |-> "none"]
    /\ ijson_available = FALSE
    /\ json_file_size = 0
    /\ jpc = "off"
    /\ items_pos = 0
    /\ record_count = 0
    /\ samples = <<>>
    /\ field_types = <<>>
    /\ all_keys = {}
    /\ reasoning_log = <<>>
    /\ result = NotReturned
    /\ returned = [streaming |-> NotReturned, regular |-> NotReturned]

GroupIdle ==
    /\ files = <<>>
    /\ gpc = "off"
    /\ similar_groups = <<>>
    /\ auto_groups = <<>>
    /\ rule_log = <<>>

\* the store before anything was saved
StoreIdle ==
    /\ stored_metadata = <<>>
    /\ group_indices = <<>>
    /\ utc_clock = 0
    /\ store_call = [op |-> "none"]

\* no value is being sanitized
RepeatIdle == repeat_call = [stage |-> "off"]

ConcurrentIdle ==
    /\ log_lists = <<>>
    /\ self_reasoning_log = 0
    /\ analyze_calls = <<>>

SerializerIdle ==
    /\ py_value = [t |-> "NoneType"]
    /\ ser_pc = "off"
    /\ sanitized = [t |-> "NoneType"]
    /\ emitted = [by |-> "nobody"]

-----------------------------------------------------------------------------
(* Text helpers: Python str/bytes methods over sequences.                  *)

UpperAlpha == <<"A","B","C","D","E","F","G","H","I","J","K","L","M",
                "N","O","P","Q","R","S","T","U","V","W","X","Y","Z">>
LowerAlpha == <<"a","b","c","d","e","f","g","h","i","j","k","l","m",
                "n","o","p","q","r","s","t","u","v","w","x","y","z">>

LowerChar(c) ==
    IF \E k \in 1..26 : UpperAlpha[k] = c
    THEN LowerAlpha[CHOOSE k \in 1..26 : UpperAlpha[k] = c]
    ELSE c

\* str.lower()
Lower(s) == [i \in 1..Len(s) |-> LowerChar(s[i])]

\* s[a:b] with 0-based, end-exclusive Python indices 0 <= a <= b <= len(s)
Slice(s, a, b) == [i \in 1..(b - a) |-> s[a + i]]

\* s.startswith(p)
StartsWith(s, p) ==
    /\ Len(p) <= Len(s)
    /\ \A i \in 1..Len(p) : s[i] = p[i]

\* p in s
Contains(s, p) ==
    \E k \in 0..(Len(s) - Len(p)) : \A i \in 1..Len(p) : s[k + i] = p[i]

\* the string a character sequence spells
RECURSIVE Str(_)
Str(s) == IF Len(s) = 0 THEN "" ELSE s[1] \o Str(Slice(s, 1, Len(s)))

\* s.rfind(c) as a 1-based position, 0 when absent
RFind(s, c) ==
    IF \E i \in 1..Len(s) : s[i] = c
    THEN CHOOSE i \in 1..Len(s) : s[i] = c /\ \A j \in (i + 1)..Len(s) : s[j] # c
    ELSE 0

\* os.path.basename(p)
Basename(p) == Slice(p, RFind(p, "/"), Len(p))

\* os.path.splitext(p)[1]: the text from the last dot of the basename, provided a
\* character other than a dot precedes it (leading dots are not an extension)
SplitExt(p) ==
    LET d == RFind(p, ".") IN
    IF d > RFind(p, "/") /\ \E k \in (RFind(p, "/") + 1)..(d - 1) : p[k] # "."
    THEN Slice(p, d - 1, Len(p))
    ELSE <<>>

\* s.lstrip('.')
RECURSIVE LStripDots(_)
LStripDots(s) ==
    IF Len(s) > 0 /\ s[1] = "." THEN LStripDots(Slice(s, 1, Len(s))) ELSE s

\* pathlib.Path(p).suffix: from the last dot of the final component when that dot
\* is neither its first nor its last character
PathSuffix(p) ==
    LET name == Basename(p)
        i == RFind(name, ".")
    IN IF 1 < i /\ i < Len(name) THEN Slice(name, i - 1, Len(name)) ELSE <<>>

-----------------------------------------------------------------------------
(* Type resolver: backend/utils/file_utils.py                              *)

\* a variant that keeps the letter case of the extension
normalize_extension_CaseKept(fn) == Str(LStripDots(SplitExt(Basename(fn))))

normalize_extension(fn) == Str(LStripDots(Lower(SplitExt(Basename(fn)))))

PDF_MAGIC  == <<37, 80, 68, 70>>                    \* b'%PDF'
PNG_MAGIC  == <<137, 80, 78, 71, 13, 10, 26, 10>>   \* b'\x89PNG\r\n\x1a\n'
JPEG_MAGIC == <<255, 216, 255>>                     \* b'\xff\xd8\xff'
GIF87_MAGIC == <<71, 73, 70, 56, 55, 97>>           \* b'GIF87a'
GIF89_MAGIC == <<71, 73, 70, 56, 57, 97>>           \* b'GIF89a'
\* the bytes bytes.lstrip() removes: space \t \n \v \f \r
ByteWhitespace == {32, 9, 10, 11, 12, 13}

RECURSIVE BytesLStrip(_)
BytesLStrip(b) ==
    IF Len(b) > 0 /\ b[1] \in ByteWhitespace
    THEN BytesLStrip(Slice(b, 1, Len(b)))
    ELSE b

\* METHOD 1 of detect_file_type_comprehensive; "" when it falls through
MagicBytesType(b) ==
    IF Len(b) = 0 THEN ""
    ELSE IF StartsWith(b, PDF_MAGIC) THEN "pdf"
    ELSE IF StartsWith(b, PNG_MAGIC) THEN "image"
    ELSE IF StartsWith(b, JPEG_MAGIC) THEN "image"
    ELSE IF StartsWith(b, GIF87_MAGIC) \/ StartsWith(b, GIF89_MAGIC) THEN "image"
    ELSE IF StartsWith(BytesLStrip(b), <<123>>) \/ StartsWith(BytesLStrip(b), <<91>>)
         THEN "json"
    ELSE ""

\* METHOD 2; "" when it falls through
ExtensionType(fn) ==
    LET ext == normalize_extension(fn) IN
    IF ext = "json" THEN "json"
    ELSE IF ext = "pdf" THEN "pdf"
    ELSE IF ext \in {"jpg", "jpeg", "png", "gif", "bmp", "webp", "tiff", "tif", "svg"}
         THEN "image"
    ELSE IF ext \in {"txt", "md", "csv", "log", "rtf"} THEN "text"
    ELSE IF ext \in {"mp4", "avi", "mov", "mkv", "webm", "flv", "wmv"} THEN "video"
    ELSE ""

\* METHOD 3; "" when it falls through
MimeType(m) ==
    IF Len(m) = 0 THEN ""
    ELSE LET mime_lower == Lower(m) IN
         IF Contains(mime_lower, <<"p","d","f">>) THEN "pdf"
         ELSE IF StartsWith(mime_lower, <<"i","m","a","g","e","/">>) THEN "image"
         ELSE IF StartsWith(mime_lower, <<"t","e","x","t","/">>) THEN "text"
         ELSE IF StartsWith(mime_lower, <<"v","i","d","e","o","/">>) THEN "video"
         ELSE IF StartsWith(mime_lower,
                   <<"a","p","p","l","i","c","a","t","i","o","n","/","j","s","o","n">>)
              THEN "json"
         ELSE ""

\* mimetypes.guess_type(filename)[0] of the standard library, for the extensions
\* METHOD 2 does not already decide; <<>> is None
GuessMime(fn) ==
    LET ext == normalize_extension(fn) IN
    IF ext \in {"html", "htm"} THEN <<"t","e","x","t","/","h","t","m","l">>
    ELSE IF ext = "css" THEN <<"t","e","x","t","/","c","s","s">>
    ELSE IF ext = "mp3" THEN <<"a","u","d","i","o","/","m","p","e","g">>
    ELSE IF ext = "mpeg" THEN <<"v","i","d","e","o","/","m","p","e","g">>
    ELSE IF ext = "ico"
         THEN <<"i","m","a","g","e","/","v","n","d",".","m","i","c","r","o","s","o","f","t",
                ".","i","c","o","n">>
    ELSE <<>>

\* METHOD 4; "" when it falls through
GuessedType(fn) ==
    LET guessed_mime == GuessMime(fn) IN
    IF Len(guessed_mime) = 0 THEN ""
    ELSE IF Contains(guessed_mime, <<"p","d","f">>) THEN "pdf"
    ELSE IF StartsWith(guessed_mime, <<"i","m","a","g","e","/">>) THEN "image"
    ELSE IF StartsWith(guessed_mime, <<"t","e","x","t","/">>) THEN "text"
    ELSE IF StartsWith(guessed_mime, <<"v","i","d","e","o","/">>) THEN "video"
    ELSE IF StartsWith(guessed_mime,
              <<"a","p","p","l","i","c","a","t","i","o","n","/","j","s","o","n">>)
         THEN "json"
    ELSE ""

\* METHOD 1 consulted only for files whose extension is not in the table: the
\* extension would win over a signature
MagicBytes_AfterExtension ==
    /\ rpc = "magic"
    /\ IF MagicBytesType(file_bytes) # "" /\ ExtensionType(filename) = ""
       THEN file_type' = MagicBytesType(file_bytes) /\ method' = "magic" /\ rpc' = "done"
       ELSE rpc' = "extension" /\ UNCHANGED <<file_type, method>>
    /\ UNCHANGED <<filename, mime_type, file_bytes, preview_hint, ctype, classifierVars,
                   jsonVars, groupVars, storeVars, serVars, concVars, repeatVars>>

\* detect_file_type_comprehensive, one step per METHOD; each step either returns
\* (rpc' = "done") or falls through to the next METHOD
MagicBytes ==
    /\ rpc = "magic"
    /\ IF MagicBytesType(file_bytes) # ""
       THEN file_type' = MagicBytesType(file_bytes) /\ method' = "magic" /\ rpc' = "done"
       ELSE rpc' = "extension" /\ UNCHANGED <<file_type, method>>
    /\ UNCHANGED <<filename, mime_type, file_bytes, preview_hint, ctype, classifierVars,
                   jsonVars, groupVars, storeVars, serVars, concVars, repeatVars>>

ExtensionLookup ==
    /\ rpc = "extension"
    /\ IF ExtensionType(filename) # ""
       THEN file_type' = ExtensionType(filename) /\ method' = "extension" /\ rpc' = "done"
       ELSE rpc' = "mime" /\ UNCHANGED <<file_type, method>>
    /\ UNCHANGED <<filename, mime_type, file_bytes, preview_hint, ctype, classifierVars,
                   jsonVars, groupVars, storeVars, serVars, concVars, repeatVars>>

MimeFallback ==
    /\ rpc = "mime"
    /\ IF MimeType(mime_type) # ""
       THEN file_type' = MimeType(mime_type) /\ method' = "mime" /\ rpc' = "done"
       ELSE rpc' = "guess" /\ UNCHANGED <<file_type, method>>
    /\ UNCHANGED <<filename, mime_type, file_bytes, preview_hint, ctype, classifierVars,
                   jsonVars, groupVars, storeVars, serVars, concVars, repeatVars>>

MimeGuess ==
    /\ rpc = "guess"
    /\ IF GuessedType(filename) # ""
       THEN file_type' = GuessedType(filename) /\ method' = "guess"
       ELSE file_type' = "unknown" /\ method' = "default"
    /\ rpc' = "done"
    /\ UNCHANGED <<filename, mime_type, file_bytes, preview_hint, ctype, classifierVars,
                   jsonVars, groupVars, storeVars, serVars, concVars, repeatVars>>

-----------------------------------------------------------------------------
(* The classifier's own type detection: backend/classifier.py              *)

\* EXTENSION_TYPE_MAP; "" when the extension (with its dot) is not a key
EXTENSION_TYPE_MAP(ext) ==
    IF ext = ".pdf" THEN "pdf"
    ELSE IF ext \in {".json", ".jsonl"} THEN "json"
    ELSE IF ext \in {".csv", ".tsv", ".xml", ".txt", ".md", ".rtf",
                     ".py", ".js", ".ts", ".html", ".css"} THEN "text"
    ELSE IF ext \in {".doc", ".docx", ".zip", ".tar", ".gz", ".rar", ".7z"} THEN "binary"
    ELSE IF ext \in {".jpg", ".jpeg", ".png", ".gif", ".bmp", ".svg", ".webp",
                     ".tiff", ".tif"} THEN "image"
    ELSE IF ext \in {".mp3", ".m4a", ".wav", ".flac", ".aac", ".ogg", ".opus", ".wma"}
         THEN "audio"
    ELSE IF ext \in {".mp4", ".mov", ".avi", ".mkv", ".wmv", ".flv", ".webm", ".m4v"}
         THEN "video"
    ELSE ""

\* ext = Path(filename).suffix.lower(), as classify_file computes it
SuffixLower(fn) == Str(Lower(PathSuffix(fn)))

\* AdvancedClassifier._detect_type(ext, mime_type, preview); hint is preview["type"],
\* "" when there is no preview or it has no type
_detect_type(ext, m, hint) ==
    IF EXTENSION_TYPE_MAP(ext) # "" THEN EXTENSION_TYPE_MAP(ext)
    ELSE IF Len(m) > 0 /\ StartsWith(m, <<"i","m","a","g","e","/">>) THEN "image"
    ELSE IF Len(m) > 0 /\ StartsWith(m, <<"a","u","d","i","o","/">>) THEN "audio"
    ELSE IF Len(m) > 0 /\ StartsWith(m, <<"v","i","d","e","o","/">>) THEN "video"
    ELSE IF Len(m) > 0 /\ Contains(Lower(m), <<"p","d","f">>) THEN "pdf"
    ELSE IF Len(m) > 0 /\ Contains(Lower(m), <<"j","s","o","n">>) THEN "json"
    ELSE IF Len(m) > 0 /\ StartsWith(m, <<"t","e","x","t","/">>) THEN "text"
    ELSE IF hint \in {"image", "audio", "video", "pdf", "json"} THEN hint
    ELSE "binary"

\* the classifier detecting the type of the same file
ClassifierDetectType ==
    /\ ctype = ""
    /\ ctype' = _detect_type(SuffixLower(filename), mime_type, preview_hint)
    /\ UNCHANGED <<filename, mime_type, file_bytes, rpc, file_type, method, preview_hint,
                   classifierVars, jsonVars, groupVars, storeVars, serVars, concVars, repeatVars>>

-----------------------------------------------------------------------------
(* Inputs of the resolver specification.                                   *)

Filenames ==
    { <<"p","h","o","t","o",".","J","P","G">>,
      <<"d","a","t","a",".","j","s","o","n">>,
      <<"s","c","a","n",".","P","d","f">>,
      <<"n","o","t","e","s",".","t","x","t">>,
      <<"c","l","i","p",".","m","p","4">>,
      <<"s","o","n","g",".","m","p","3">>,
      <<"p","a","g","e",".","h","t","m","l">>,
      <<"d","a","t","a",".","x","y","z">>,
      <<"R","E","A","D","M","E">>,
      <<".","j","s","o","n">>,
      <<"u","p",".","p","d","f","/","r","a","w">>,
      <<"a",".","t","a","r",".","g","z">> }

MimeTypes ==
    { <<>>,
      <<"a","p","p","l","i","c","a","t","i","o","n","/","p","d","f">>,
      <<"i","m","a","g","e","/","p","n","g">>,
      <<"I","M","A","G","E","/","P","N","G">>,
      <<"t","e","x","t","/","p","l","a","i","n">>,
      <<"v","i","d","e","o","/","m","p","4">>,
      <<"a","u","d","i","o","/","m","p","e","g">>,
      <<"a","p","p","l","i","c","a","t","i","o","n","/","j","s","o","n">>,
      <<"a","p","p","l","i","c","a","t","i","o","n","/","z","i","p">> }

LeadingBytes ==
    { <<>>,
      PDF_MAGIC \o <<45, 49>>,
      PNG_MAGIC,
      JPEG_MAGIC \o <<224>>,
      GIF87_MAGIC,
      GIF89_MAGIC,
      <<123, 34>>,
      <<32, 10, 91, 49>>,
      <<32, 37, 80, 68, 70>>,
      <<104, 101, 108, 108, 111>> }

PreviewHints == {"", "image", "json", "text"}

ClassifierIdle ==
    /\ metadata = [filename |-> <<>>]
    /\ preview = [present |-> FALSE]
    /\ classification = [status |-> "none"]

InitResolver ==
    /\ filename \in Filenames
    /\ mime_type \in MimeTypes
    /\ file_bytes \in LeadingBytes
    /\ preview_hint \in PreviewHints
    /\ rpc = "magic"
    /\ file_type = ""
    /\ method = ""
    /\ ctype = ""
    /\ ClassifierIdle
    /\ JsonIdle
    /\ GroupIdle
    /\ StoreIdle
    /\ SerializerIdle
    /\ ConcurrentIdle
    /\ RepeatIdle

NextResolver ==
    \/ MagicBytes
    \/ ExtensionLookup
    \/ MimeFallback
    \/ MimeGuess
    \/ ClassifierDetectType

SpecResolver == InitResolver /\ [][NextResolver]_vars

-----------------------------------------------------------------------------
(* Properties of type resolution.                                          *)

\* the recognised byte signatures, stated on the bytes themselves
HasImageMagic(b) ==
    \/ StartsWith(b, PNG_MAGIC)
    \/ StartsWith(b, JPEG_MAGIC)
    \/ StartsWith(b, GIF87_MAGIC)
    \/ StartsWith(b, GIF89_MAGIC)

HasJsonOpening(b) ==
    \E k \in 1..Len(b) :
        /\ b[k] \in {123, 91}
        /\ \A j \in 1..(k - 1) : b[j] \in ByteWhitespace

SignatureRecognised(b) ==
    StartsWith(b, PDF_MAGIC) \/ HasImageMagic(b) \/ HasJsonOpening(b)

\* C2: resolution follows signature > extension > MIME.  A recognised signature
\* decides the type whatever the extension and the MIME say; without one, an
\* extension of the table decides whatever the MIME says; the MIME decides only
\* when neither of the two does.
C2_PrioritySignatureExtensionMime ==
    rpc = "done" =>
        /\ StartsWith(file_bytes, PDF_MAGIC) => file_type = "pdf" /\ method = "magic"
        /\ HasImageMagic(file_bytes) => file_type = "image" /\ method = "magic"
        /\ (HasJsonOpening(file_bytes) /\ ~StartsWith(file_bytes, PDF_MAGIC)
              /\ ~HasImageMagic(file_bytes))
              => file_type = "json" /\ method = "magic"
        /\ (~SignatureRecognised(file_bytes) /\ ExtensionType(filename) # "")
              => file_type = ExtensionType(filename) /\ method = "extension"
        /\ method = "mime"
              => /\ ~SignatureRecognised(file_bytes)
                 /\ ExtensionType(filename) = ""
                 /\ file_type = MimeType(mime_type)

\* C2 witness: a signature has won against an extension and a MIME that both
\* name another type
C2_Witness ==
    /\ rpc = "done"
    /\ method = "magic"
    /\ ExtensionType(filename) \notin {"", file_type}
    /\ MimeType(mime_type) \notin {"", file_type, ExtensionType(filename)}

TypeVerdictTypes == {"json", "pdf", "image", "audio", "video", "text", "binary"}

\* C3: the resolved type is always one of the seven verdict types, and an input
\* that no detector recognises (no signature, no table extension, no matching
\* MIME) resolves to binary.
C3_ResolvesIntoVerdictTypes ==
    rpc = "done" =>
        /\ file_type \in TypeVerdictTypes
        /\ (~SignatureRecognised(file_bytes) /\ ExtensionType(filename) = ""
              /\ MimeType(mime_type) = "")
              => file_type = "binary"

-----------------------------------------------------------------------------
(* Content classifier: backend/classifier.py                               *)
(* A feature map is a function from key names to values; None is the       *)
(* record NoPreview.  Confidences are hundredths (0.85 is 85); ratios      *)
(* (image_ratio, field_consistency, nested_ratio) are hundredths too.      *)

NoPreview == [is_none |-> TRUE]

\* Python's `not preview`: None or an empty dict
Falsy(p) == DOMAIN p = {} \/ "is_none" \in DOMAIN p

\* dict.get(k, default)
Get(d, k, default) == IF k \in DOMAIN d THEN d[k] ELSE default

\* a returned Classification
Classified(t, category, subcategories, confidence) ==
    [status |-> "returned", type |-> t, category |-> category,
     subcategories |-> subcategories, confidence |-> confidence]

\* the call ended in an exception instead of returning
Raised(error) ==
    [status |-> "raised", type |-> error, category |-> "",
     subcategories |-> <<>>, confidence |-> 0]

\* a local variable read before any assignment reached it
UNBOUND == "<unbound>"

\* the number of the listed patterns that occur in text
CountMatches(patterns, text) == Cardinality({k \in 1..Len(patterns) : Contains(text, patterns[k])})

receipt_keywords ==
    << <<"t","o","t","a","l">>,
       <<"s","u","b","t","o","t","a","l">>,
       <<"t","a","x">>,
       <<"r","e","c","e","i","p","t">>,
       <<"i","n","v","o","i","c","e">>,
       <<"p","a","y","m","e","n","t">>,
       <<"t","r","a","n","s","a","c","t","i","o","n">>,
       <<"q","t","y">>,
       <<"a","m","o","u","n","t">>,
       <<"c","a","s","h","i","e","r">> >>

table_indicators ==
    << <<"t","a","b","l","e">>, <<"r","o","w">>, <<"c","o","l","u","m","n">>, <<"h","e","a","d","e","r">>,
       <<"|">>, <<"BOX_HEAVY_VERTICAL">>, <<"BOX_LIGHT_VERTICAL">>,
       <<"BOX_LIGHT_HORIZONTAL">>, <<"BOX_HEAVY_HORIZONTAL">> >>

_is_pdf_receipt(p) ==
    CountMatches(receipt_keywords, Lower(Get(p, "text_content", <<>>))) >= 3

_is_pdf_slides(p, page_count) ==
    LET text_length == Get(p, "text_length", 0) IN
    IF page_count > 0 THEN text_length < 500 * page_count ELSE TRUE

_is_pdf_ebook(p, page_count, text_length) ==
    /\ page_count >= 50
    /\ IF page_count > 0 THEN text_length > 1500 * page_count ELSE FALSE

_has_tables(p) ==
    CountMatches(table_indicators, Lower(Get(p, "text_content", <<>>))) >= 2

\* the if/elif chain of _classify_pdf: <<category, confidence, subcategories>>, with
\* category left UNBOUND on the paths that assign nothing
PdfRuleChain(p) ==
    LET is_scanned == Get(p, "is_scanned", FALSE)
        has_forms == Get(p, "has_forms", FALSE)
        image_ratio == Get(p, "image_ratio", 0)
        text_length == Get(p, "text_length", 0)
        page_count == Get(p, "page_count", 1)
    IN
    IF has_forms THEN <<"pdf_form", 95, <<"interactive_form">> >>
    ELSE IF is_scanned THEN <<"pdf_scanned", 90, <<"ocr_applied">> >>
    ELSE IF page_count <= 2 /\ text_length < 3000 THEN
        IF _is_pdf_receipt(p) THEN <<"pdf_receipt", 85, <<"short_document">> >>
        ELSE <<UNBOUND, 50, <<>> >>
    ELSE IF page_count >= 5 /\ image_ratio > 30 THEN
        IF _is_pdf_slides(p, page_count)
        THEN <<"pdf_slides", 80, <<"pages_" \o ToString(page_count)>> >>
        ELSE <<"pdf_presentation", 75, <<>> >>
    ELSE IF page_count >= 50 THEN
        IF _is_pdf_ebook(p, page_count, text_length)
        THEN <<"pdf_ebook_layout", 80, <<"long_document">> >>
        ELSE <<UNBOUND, 50, <<>> >>
    ELSE IF _has_tables(p) THEN <<"pdf_with_tables", 75, <<"structured_data">> >>
    ELSE IF image_ratio > 40
        THEN <<"pdf_with_images", 75, <<"images_" \o ToString(image_ratio) \o "pct">> >>
    ELSE <<"pdf_text_document", 70, <<"primarily_text">> >>

_classify_pdf(md, p) ==
    IF Falsy(p) THEN Classified("pdf", "pdf_document", <<>>, 30)
    ELSE LET r == PdfRuleChain(p) IN
         IF r[1] = UNBOUND THEN Raised("UnboundLocalError")
         ELSE Classified("pdf", r[1], r[3], r[2])

\* the chain with the elif consistency >= 0.70 tested before the SQL-suitability
\* condition
JsonRuleChain_SemistructuredFirst(p) ==
    LET shape == Get(p, "shape", "unknown")
        consistency == Get(p, "field_consistency", 0)
        max_depth == Get(p, "max_depth", 0)
        nested_ratio == Get(p, "nested_ratio", 0)
    IN
    IF shape = "array_of_objects" THEN
        IF consistency >= 70 THEN <<"json_semistructured", 80, <<"partial_schema">> >>
        ELSE IF consistency >= 95 /\ max_depth <= 2 /\ nested_ratio < 30
        THEN <<"json_flat_structured", 95, <<"sql_ready">> >>
        ELSE <<"json_unstructured", 70, <<>> >>
    ELSE IF max_depth > 3 \/ nested_ratio > 50
        THEN <<"json_nested", 85, <<"depth_" \o ToString(max_depth)>> >>
    ELSE IF shape \in {"scalar", "array_of_scalars", "single_object"} THEN
        IF max_depth <= 1 THEN <<"json_flat_structured", 75, <<>> >>
        ELSE <<"json_nested", 70, <<>> >>
    ELSE <<"json_unstructured", 60, <<>> >>

\* the if/elif chain of _classify_json: <<category, confidence, subcategories>>
JsonRuleChain(p) ==
    LET shape == Get(p, "shape", "unknown")
        consistency == Get(p, "field_consistency", 0)
        max_depth == Get(p, "max_depth", 0)
        nested_ratio == Get(p, "nested_ratio", 0)
    IN
    IF shape = "array_of_objects" THEN
        IF consistency >= 95 /\ max_depth <= 2 /\ nested_ratio < 30
        THEN <<"json_flat_structured", 95,
               <<"sql_ready">> \o (IF "schema" \in DOMAIN p /\ ~Falsy(p["schema"])
                                   THEN <<"has_schema">> ELSE <<>>)>>
        ELSE IF consistency >= 70 THEN <<"json_semistructured", 80, <<"partial_schema">> >>
        ELSE <<"json_unstructured", 70, <<>> >>
    ELSE IF max_depth > 3 \/ nested_ratio > 50
        THEN <<"json_nested", 85, <<"depth_" \o ToString(max_depth)>> >>
    ELSE IF shape \in {"scalar", "array_of_scalars", "single_object"} THEN
        IF max_depth <= 1 THEN <<"json_flat_structured", 75, <<>> >>
        ELSE <<"json_nested", 70, <<>> >>
    ELSE <<"json_unstructured", 60, <<>> >>

_classify_json(md, p) ==
    IF Falsy(p) THEN Classified("json", "json_unstructured", <<>>, 30)
    ELSE IF Get(p, "parse_error", FALSE)
         THEN Classified("json", "json_invalid", <<"json_parse_error">>, 100)
    ELSE LET r == JsonRuleChain(p) IN Classified("json", r[1], r[3], r[2])

_classify_text(md, p, ext) ==
    LET r == IF ext = ".md" THEN <<"text_markdown", <<"markdown">> >>
             ELSE IF ext = ".csv" THEN <<"text_csv", <<"tabular">> >>
             ELSE IF ext = ".xml" THEN <<"text_xml", <<"structured">> >>
             ELSE IF ext \in {".py", ".js", ".ts", ".html", ".css"}
                  THEN <<"text_code", <<"code" \o ext>> >>
             ELSE <<"text_document", <<"plain_text">> >>
    IN Classified("text", r[1], r[2], 90)

\* ext[1:] of a non-empty extension string: the text after its leading dot
ExtWithoutDot(fn) == Str(Slice(Lower(PathSuffix(fn)), 1, Len(PathSuffix(fn))))

_fallback_classification(fn, ext, t) ==
    Classified(t, IF ext # "" THEN ExtWithoutDot(fn) \o "_group" ELSE "unknown_group",
               <<"fallback">>, 40)

_is_whatsapp_voice(ext, duration, size) ==
    \/ ext = ".opus" /\ duration < 180 /\ 5000 < size /\ size < 500000
    \/ ext = ".m4a" /\ duration < 180 /\ 10000 < size /\ size < 1000000

\* format tags appended before the preview is looked at
AudioFormatTags(ext) ==
    IF ext = ".mp3" THEN <<"audio_mp3">>
    ELSE IF ext = ".m4a" THEN <<"audio_m4a">>
    ELSE IF ext = ".wav" THEN <<"audio_wav">>
    ELSE IF ext = ".opus" THEN <<"audio_opus">>
    ELSE <<>>

\* the if/elif chain of _classify_audio; bitrate = file_size * 8 / duration, 0 when
\* the duration is not positive, compared without dividing
AudioRuleChain(md, p, ext) ==
    LET duration == Get(p, "duration_seconds", 0)
        file_size == Get(md, "size", 0)
        bits == file_size * 8
        BitrateBelow(x) == IF duration > 0 THEN bits < x * duration ELSE 0 < x
        BitrateAbove(x) == IF duration > 0 THEN bits > x * duration ELSE 0 > x
    IN
    IF _is_whatsapp_voice(ext, duration, file_size)
        THEN <<"audio_whatsapp_voice", 90, <<"voice_message">> >>
    ELSE IF duration < 120 /\ BitrateBelow(64000)
        THEN <<"audio_voice_note", 80, <<"short_recording">> >>
    ELSE IF duration > 600 /\ ~BitrateBelow(64000) /\ ~BitrateAbove(192000)
        THEN <<"audio_podcast_like", 75, <<"long_audio">> >>
    ELSE IF 120 <= duration /\ duration <= 600 /\ BitrateAbove(128000)
        THEN <<"audio_music", 70, <<"high_quality">> >>
    ELSE <<"audio_recording", 60, <<>> >>

_classify_audio(md, p, ext) ==
    IF Falsy(p) THEN Classified("audio", "audio_recording", AudioFormatTags(ext), 30)
    ELSE LET r == AudioRuleChain(md, p, ext) IN
         Classified("audio", r[1], AudioFormatTags(ext) \o r[3], r[2])

\* lo/100 <= w/h <= hi/100 for h > 0; the ratio is 1.0 when h is not positive
AspectBetween(w, h, lo, hi) ==
    IF h > 0 THEN lo * h <= 100 * w /\ 100 * w <= hi * h
    ELSE lo <= 100 /\ 100 <= hi
AspectBelow(w, h, x) == IF h > 0 THEN 100 * w < x * h ELSE 100 < x
AspectAbove(w, h, x) == IF h > 0 THEN 100 * w > x * h ELSE 100 > x

_is_screen_recording(w, h, fps) ==
    /\ <<w, h>> \in {<<1920, 1080>>, <<1280, 720>>, <<2560, 1440>>,
                     <<1366, 768>>, <<1440, 900>>, <<3840, 2160>>}
    /\ 15 <= fps /\ fps <= 30

_is_youtube_like(w, h, duration, fps) ==
    /\ AspectBetween(w, h, 170, 180)
    /\ h >= 720
    /\ 24 <= fps /\ fps <= 60
    /\ duration > 60

_is_camera_clip(w, h, duration) ==
    /\ AspectBetween(w, h, 130, 180)
    /\ 5 <= duration /\ duration <= 300
    /\ 720 <= h /\ h <= 2160

\* the if/elif chain of _classify_video
VideoRuleChain(p) ==
    LET width == Get(p, "width", 0)
        height == Get(p, "height", 0)
        duration == Get(p, "duration_seconds", 0)
        fps == Get(p, "fps", 0)
    IN
    IF AspectBelow(width, height, 80) THEN <<"video_portrait", 90, <<"vertical_video">> >>
    ELSE IF _is_screen_recording(width, height, fps)
        THEN <<"video_screen_recording", 85,
               <<ToString(width) \o "x" \o ToString(height)>> >>
    ELSE IF _is_youtube_like(width, height, duration, fps)
        THEN <<"video_youtube_like", 80, <<"hd_video">> >>
    ELSE IF _is_camera_clip(width, height, duration)
        THEN <<"video_camera_clip", 75, <<"mobile_recording">> >>
    ELSE <<"video_landscape", 65, <<"horizontal_video">> >>

_classify_video(md, p) ==
    IF Falsy(p) THEN Classified("video", "video_clip", <<>>, 30)
    ELSE LET r == VideoRuleChain(p) IN Classified("video", r[1], r[3], r[2])

_is_screenshot(p, w, h, ext, size) ==
    \/ <<w, h>> \in {<<1920, 1080>>, <<1366, 768>>, <<1440, 900>>, <<2560, 1440>>,
                     <<3840, 2160>>, <<1280, 720>>, <<1600, 900>>, <<2560, 1600>>}
    \/ ext = ".png" /\ ~Get(p, "has_exif", FALSE) /\ w >= 1000 /\ h >= 600
    \/ Get(Get(p, "quality", <<>>), "sharpness", 0) > 70 /\ ~Get(p, "has_exif", FALSE)

_is_scanned_document(p, w, h, size) ==
    LET colors == Get(p, "colors", <<>>) IN
    \/ /\ AspectBetween(w, h, 125, 160)
       /\ w >= 1500 \/ h >= 2000
       /\ \/ Get(colors, "is_grayscale", FALSE)
          \/ Len(Get(colors, "dominant_colors", <<>>)) <= 3
    \/ Str(Lower(Get(p, "format", <<>>))) \in {"tiff", "tif"}

_is_meme(p, w, h, has_alpha, ext) ==
    /\ AspectBetween(w, h, 80, 120)
    /\ 300 <= w /\ w <= 1200 /\ 300 <= h /\ h <= 1200
    /\ ext \in {".jpg", ".jpeg"}
    /\ ~Get(p, "has_exif", FALSE)

_is_selfie(p, has_exif, w, h) ==
    /\ has_exif
    /\ h > w
    /\ 1000 <= w /\ w <= 5000 /\ 1500 <= h /\ h <= 8000

\* a variant without the aspect window of the PNG/WEBP test
_is_ai_generated_AnyAspect(p, has_exif, w, h, ext) ==
    /\ ~has_exif
    /\ \/ <<w, h>> \in {<<512, 512>>, <<768, 768>>, <<1024, 1024>>, <<512, 768>>,
                        <<768, 512>>, <<1024, 768>>, <<768, 1024>>}
       \/ /\ ext \in {".png", ".webp"}
          /\ 500 <= w /\ w <= 2048 /\ 500 <= h /\ h <= 2048

_is_ai_generated(p, has_exif, w, h, ext) ==
    /\ ~has_exif
    /\ \/ <<w, h>> \in {<<512, 512>>, <<768, 768>>, <<1024, 1024>>, <<512, 768>>,
                        <<768, 512>>, <<1024, 768>>, <<768, 1024>>}
       \/ /\ ext \in {".png", ".webp"}
          /\ AspectBetween(w, h, 60, 140)
          /\ 500 <= w /\ w <= 2048 /\ 500 <= h /\ h <= 2048

_is_digital_poster(p, has_alpha, w, h, size) ==
    /\ h > w
    /\ h >= 1000
    /\ has_alpha \/ (w * h > 0 /\ 2 * size > w * h)

_is_graphic_art(p, has_alpha, ext) ==
    \/ /\ ext = ".png"
       /\ has_alpha
       /\ Len(Get(Get(p, "colors", <<>>), "dominant_colors", <<>>)) >= 4
    \/ ext = ".svg"

_is_photo_document(p, w, h) ==
    /\ w < 1500
    /\ h < 2000
    /\ AspectBetween(w, h, 140, 170) \/ AspectBetween(w, h, 58, 72)

ImageFormatTags(ext) ==
    IF ext \in {".jpg", ".jpeg"} THEN <<"image_jpeg">>
    ELSE IF ext = ".png" THEN <<"image_png">>
    ELSE IF ext = ".webp" THEN <<"image_webp">>
    ELSE IF ext = ".gif" THEN <<"image_gif">>
    ELSE IF ext \in {".tiff", ".tif"} THEN <<"image_tiff">>
    ELSE IF ext = ".bmp" THEN <<"image_bmp">>
    ELSE <<>>

ImageShapeTag(w, h) ==
    IF AspectBetween(w, h, 95, 105) THEN "image_square"
    ELSE IF AspectBelow(w, h, 70) THEN "image_portrait"
    ELSE IF AspectAbove(w, h, 180) THEN "image_panorama"
    ELSE "image_landscape"

\* the if/elif chain of _classify_image: <<category, confidence>>
ImageRuleChain(md, p, ext) ==
    LET width == Get(p, "width", 0)
        height == Get(p, "height", 0)
        has_exif == Get(p, "has_exif", FALSE)
        has_alpha == Get(p, "has_alpha", FALSE)
        file_size == Get(md, "size", 0)
    IN
    IF _is_ai_generated(p, has_exif, width, height, ext) THEN <<"image_ai_generated_like", 65>>
    ELSE IF _is_screenshot(p, width, height, ext, file_size) THEN <<"image_screenshot", 85>>
    ELSE IF _is_scanned_document(p, width, height, file_size)
        THEN <<"image_scanned_document", 80>>
    ELSE IF _is_meme(p, width, height, has_alpha, ext) THEN <<"image_meme", 75>>
    ELSE IF _is_selfie(p, has_exif, width, height) THEN <<"image_selfie_frontcamera", 70>>
    ELSE IF _is_ai_generated(p, has_exif, width, height, ext)
        THEN <<"image_ai_generated_like", 65>>
    ELSE IF _is_digital_poster(p, has_alpha, width, height, file_size)
        THEN <<"image_digital_poster", 70>>
    ELSE IF _is_graphic_art(p, has_alpha, ext) THEN <<"image_graphic_art", 65>>
    ELSE IF _is_photo_document(p, width, height) THEN <<"image_photo_document", 75>>
    ELSE IF has_exif THEN <<"image_photo_realworld", 80>>
    ELSE <<"image_photo", 50>>

_classify_image(md, p, ext) ==
    IF Falsy(p) THEN Classified("image", "image" \o ext, ImageFormatTags(ext), 30)
    ELSE LET r == ImageRuleChain(md, p, ext) IN
         Classified("image", r[1],
                    ImageFormatTags(ext)
                        \o <<ImageShapeTag(Get(p, "width", 0), Get(p, "height", 0))>>,
                    r[2])

\* AdvancedClassifier.classify_file(metadata, preview)
classify_file(md, p) ==
    LET fn == Get(md, "filename", <<>>)
        ext == SuffixLower(fn)
        t == _detect_type(ext, Get(md, "mime_type", <<>>),
                          IF Falsy(p) THEN "" ELSE Get(p, "type", ""))
    IN
    IF t = "image" THEN _classify_image(md, p, ext)
    ELSE IF t = "json" THEN _classify_json(md, p)
    ELSE IF t = "pdf" THEN _classify_pdf(md, p)
    ELSE IF t = "audio" THEN _classify_audio(md, p, ext)
    ELSE IF t = "video" THEN _classify_video(md, p)
    ELSE IF t = "text" THEN _classify_text(md, p, ext)
    ELSE _fallback_classification(fn, ext, t)

\* the operation of the classifier specification: one classify_file call
ClassifyFile ==
    /\ classification.status = "none"
    /\ classification' = classify_file(metadata, preview)
    /\ UNCHANGED <<metadata, preview, resolverVars, jsonVars, groupVars, storeVars, serVars, concVars, repeatVars>>

-----------------------------------------------------------------------------
(* Inputs of the classifier specification.                                 *)

ClassifierFilenames ==
    { <<"r","e","p","o","r","t",".","p","d","f">>, <<"d","a","t","a",".","j","s","o","n">>, <<"s","h","o","t",".","p","n","g">>, <<"m","e","m","e",".","J","P","G">>,
      <<"v","o","i","c","e",".","o","p","u","s">>, <<"s","o","n","g",".","m","p","3">>, <<"c","l","i","p",".","m","p","4">>, <<"n","o","t","e","s",".","m","d">>,
      <<"d","a","t","a",".","x","y","z">>, <<"R","E","A","D","M","E">>,
      <<"a","r","t",".","w","e","b","p">> }

FileSizes == {1000, 50000, 8000000}

MetadataInputs ==
    { [filename |-> f, mime_type |-> <<>>, size |-> z] :
        f \in ClassifierFilenames, z \in FileSizes }
    \cup { [filename |-> <<"R","E","A","D","M","E">>, mime_type |-> m, size |-> 1000] :
             m \in { <<"a","p","p","l","i","c","a","t","i","o","n","/","p","d","f">>, <<"a","p","p","l","i","c","a","t","i","o","n","/","j","s","o","n">> } }

TextContents ==
    { <<>>, <<"T","o","t","a","l",":"," ","4","5"," ","T","a","x",":"," ","3"," ","R","e","c","e","i","p","t">>, <<"T","a","b","l","e"," ","1",":"," ","r","o","w"," ","a","n","d"," ","c","o","l","u","m","n">>, <<"h","e","l","l","o"," ","w","o","r","l","d"," ","t","o","t","a","l">> }

PdfPreviews ==
    { [has_forms |-> hf, is_scanned |-> sc, page_count |-> pc, text_length |-> tl,
       image_ratio |-> ir, text_content |-> tc] :
        hf \in BOOLEAN, sc \in BOOLEAN, pc \in {1, 2, 5, 50},
        tl \in {0, 2999, 3000, 100000}, ir \in {0, 35, 45}, tc \in TextContents }

JsonPreviews ==
    { [shape |-> sh, field_consistency |-> fc, max_depth |-> md, nested_ratio |-> nr,
       schema |-> sc] :
        sh \in {"array_of_objects", "single_object", "array_of_scalars", "mixed"},
        fc \in {50, 70, 95, 98}, md \in {0, 1, 2, 4}, nr \in {10, 30, 60},
        sc \in {[k \in {} |-> 0], [id |-> "int"]} }
    \cup { [parse_error |-> TRUE] }
    \cup { [error |-> "Failed to parse JSON"] }

ImagePreviews ==
    { [width |-> wh[1], height |-> wh[2], has_exif |-> ex, has_alpha |-> al,
       format |-> fm, colors |-> co, quality |-> [sharpness |-> sh]] :
        wh \in {<<1920, 1080>>, <<1024, 1024>>, <<800, 800>>, <<1200, 1600>>,
                <<3000, 4000>>, <<600, 400>>, <<2000, 1400>>, <<0, 0>>},
        ex \in BOOLEAN, al \in BOOLEAN,
        fm \in {<<"P","N","G">>, <<"T","I","F","F">>},
        co \in {[is_grayscale |-> TRUE, dominant_colors |-> <<1>>],
                [is_grayscale |-> FALSE, dominant_colors |-> <<1, 2, 3, 4>>]},
        sh \in {10, 75} }

\* the common_screens list of _is_screenshot
CommonScreens ==
    {<<1920, 1080>>, <<1366, 768>>, <<1440, 900>>, <<2560, 1440>>,
     <<3840, 2160>>, <<1280, 720>>, <<1600, 900>>, <<2560, 1600>>}

\* previews of images at each common screen resolution
ScreenPreviews ==
    { [width |-> wh[1], height |-> wh[2], has_exif |-> ex, has_alpha |-> FALSE,
       format |-> <<"P","N","G">>,
       colors |-> [is_grayscale |-> FALSE, dominant_colors |-> <<1, 2, 3, 4>>],
       quality |-> [sharpness |-> sh]] :
        wh \in CommonScreens, ex \in BOOLEAN, sh \in {10, 75} }

AudioPreviews == { [duration_seconds |-> d] : d \in {0, 45, 300, 3600} }

VideoPreviews ==
    { [width |-> wh[1], height |-> wh[2], duration_seconds |-> d, fps |-> f] :
        wh \in {<<720, 1280>>, <<1920, 1080>>, <<1280, 960>>, <<640, 360>>},
        d \in {3, 30, 600}, f \in {10, 30, 60} }

PreviewInputs ==
    {NoPreview, [k \in {} |-> 0], [type |-> "image"]}
        \cup PdfPreviews \cup JsonPreviews \cup ImagePreviews \cup ScreenPreviews
        \cup AudioPreviews \cup VideoPreviews

ResolverIdle ==
    /\ filename = <<>>
    /\ mime_type = <<>>
    /\ file_bytes = <<>>
    /\ preview_hint = ""
    /\ rpc = "idle"
    /\ file_type = ""
    /\ method = ""
    /\ ctype = "idle"

InitClassifier ==
    /\ metadata \in MetadataInputs
    /\ preview \in PreviewInputs
    /\ classification = [status |-> "none"]
    /\ ResolverIdle
    /\ JsonIdle
    /\ GroupIdle
    /\ StoreIdle
    /\ SerializerIdle
    /\ ConcurrentIdle
    /\ RepeatIdle

NextClassifier == ClassifyFile

SpecClassifier == InitClassifier /\ [][NextClassifier]_vars

\* C1: classify_file always returns a complete Classification and never ends in
\* an exception, whatever the metadata and the feature map.
C1_ClassifyFileAlwaysReturns ==
    classification.status # "none" =>
        /\ classification.status = "returned"
        /\ classification.type \in TypeVerdictTypes
        /\ classification.category # ""
        /\ 0 <= classification.confidence /\ classification.confidence <= 100

-----------------------------------------------------------------------------
(* Schema inference: backend/processors/json_processor.py                  *)
(* A parsed JSON value is a record [t, n, items]: t is its Python type     *)
(* ("null", "bool", "int", "float", "string", "array", "object"), n the    *)
(* number for bool/int/float, items the characters of a string, the        *)
(* elements of an array, or the <<key, value>> pairs of an object in       *)
(* insertion order.                                                        *)

MAX_SAMPLE_SIZE == 50
LARGE_FILE_THRESHOLD == 5 * 1024 * 1024
\* the literal 1000 of _stream_analyze_array: the early stop and the presence cap
STREAM_SCAN_LIMIT == 1000
\* the caps written into _simplify_record
SIMPLIFY_MAX_DEPTH == 2
SIMPLIFY_MAX_FIELDS == 20
SIMPLIFY_MAX_ARRAY == 5
SIMPLIFY_MAX_STRING == 200

JNull == [t |-> "null", n |-> 0, items |-> <<>>]
JBool(b) == [t |-> "bool", n |-> IF b THEN 1 ELSE 0, items |-> <<>>]
JInt(k) == [t |-> "int", n |-> k, items |-> <<>>]
JStr(chars) == [t |-> "string", n |-> 0, items |-> chars]
JArr(elems) == [t |-> "array", n |-> 0, items |-> elems]
JObj(pairs) == [t |-> "object", n |-> 0, items |-> pairs]

\* isinstance(v, dict)
IsDict(v) == v.t = "object"

Digits == <<"0","1","2","3","4","5","6","7","8","9">>
IsDigit(c) == \E k \in 1..10 : Digits[k] = c

\* str(n) for n >= 0, as characters
RECURSIVE IntChars(_)
IntChars(k) ==
    IF k < 10 THEN <<Digits[k + 1]>> ELSE IntChars(k \div 10) \o <<Digits[(k % 10) + 1]>>

\* the characters the class [\s-] of _normalize_key matches
IsKeySeparator(c) == c \in {" ", "-", "\t", "\n"}

\* re.sub(r'[\s-]+', '_', s) from position i on
RECURSIVE SubSeparators(_, _)
SubSeparators(s, i) ==
    IF i > Len(s) THEN <<>>
    ELSE IF ~IsKeySeparator(s[i]) THEN <<s[i]>> \o SubSeparators(s, i + 1)
    ELSE IF i > 1 /\ IsKeySeparator(s[i - 1]) THEN SubSeparators(s, i + 1)
    ELSE <<"_">> \o SubSeparators(s, i + 1)

_normalize_key(key) == SubSeparators(Lower(key), 1)

\* re.match of \d{4}-\d{2}-\d{2} or \d{2}/\d{2}/\d{4} at the start of the string
\* (the third pattern of the list begins with the first)
_is_date(s) ==
    \/ /\ Len(s) >= 10
       /\ \A i \in {1, 2, 3, 4, 6, 7, 9, 10} : IsDigit(s[i])
       /\ s[5] = "-" /\ s[8] = "-"
    \/ /\ Len(s) >= 10
       /\ \A i \in {1, 2, 4, 5, 7, 8, 9, 10} : IsDigit(s[i])
       /\ s[3] = "/" /\ s[6] = "/"

_infer_type(v) ==
    IF v.t = "null" THEN "null"
    ELSE IF v.t = "bool" THEN "bool"
    ELSE IF v.t = "int" THEN "int"
    ELSE IF v.t = "float" THEN "float"
    ELSE IF v.t = "string" THEN (IF _is_date(v.items) THEN "date" ELSE "string")
    ELSE IF v.t = "array" THEN "array"
    ELSE IF v.t = "object" THEN "object"
    ELSE "unknown"

\* the first k elements of a sequence (all of it when shorter)
Take(s, k) == [i \in 1..(IF Len(s) < k THEN Len(s) ELSE k) |-> s[i]]

\* f"... {k} more items"
MoreItemsMarker(k) ==
    JStr(<<".", ".", ".", " ">> \o IntChars(k)
         \o <<" ","m","o","r","e"," ","i","t","e","m","s">>)

TRUNCATED_KEY == <<"_","_","t","r","u","n","c","a","t","e","d","_","_">>
TRUNCATED_FIELDS_KEY ==
    <<"_","_","t","r","u","n","c","a","t","e","d","_","f","i","e","l","d","s","_","_">>
NESTED_STRUCTURE ==
    JStr(<<"n","e","s","t","e","d"," ","s","t","r","u","c","t","u","r","e">>)

\* _simplify_record(record, max_depth, current_depth)
RECURSIVE _simplify_record(_, _, _)
_simplify_record(record, max_depth, current_depth) ==
    IF ~IsDict(record) THEN record
    ELSE IF current_depth >= max_depth THEN JObj(<< <<TRUNCATED_KEY, NESTED_STRUCTURE>> >>)
    ELSE
        LET kept == Take(record.items, SIMPLIFY_MAX_FIELDS)
            SimplifyValue(value) ==
                IF IsDict(value) THEN _simplify_record(value, max_depth, current_depth + 1)
                ELSE IF value.t = "array" THEN
                    IF Len(value.items) > SIMPLIFY_MAX_ARRAY
                    THEN JArr(Take(value.items, SIMPLIFY_MAX_ARRAY)
                              \o <<MoreItemsMarker(Len(value.items) - SIMPLIFY_MAX_ARRAY)>>)
                    ELSE value
                ELSE IF value.t = "string" /\ Len(value.items) > SIMPLIFY_MAX_STRING
                    THEN JStr(Take(value.items, SIMPLIFY_MAX_STRING) \o <<".", ".", ".">>)
                ELSE value
            simplified == [i \in 1..Len(kept) |-> <<kept[i][1], SimplifyValue(kept[i][2])>>]
        IN
        IF Len(record.items) > SIMPLIFY_MAX_FIELDS
        THEN JObj(simplified \o << <<TRUNCATED_FIELDS_KEY,
                                    JInt(Len(record.items) - SIMPLIFY_MAX_FIELDS)>> >>)
        ELSE JObj(simplified)

\* ---- Counter / defaultdict(Counter) --------------------------------------
\* A Counter is the sequence of its [type, count] entries in insertion order.

\* counter[t] += 1
CounterAdd(counter, t) ==
    IF \E k \in 1..Len(counter) : counter[k].type = t
    THEN LET k == CHOOSE j \in 1..Len(counter) : counter[j].type = t
         IN [counter EXCEPT ![k] = [type |-> t, count |-> @.count + 1]]
    ELSE Append(counter, [type |-> t, count |-> 1])

\* sum(counter.values())
RECURSIVE CounterTotalFrom(_, _)
CounterTotalFrom(counter, k) ==
    IF k > Len(counter) THEN 0 ELSE counter[k].count + CounterTotalFrom(counter, k + 1)
CounterTotal(counter) == CounterTotalFrom(counter, 1)

\* counter.most_common(1)[0]: the first entry, in insertion order, of greatest count
MostCommon(counter) ==
    counter[CHOOSE k \in 1..Len(counter) :
                /\ \A j \in 1..Len(counter) : counter[j].count <= counter[k].count
                /\ \A j \in 1..(k - 1) : counter[j].count < counter[k].count]

\* dict(counter)
CounterAsDict(counter) ==
    [t \in {counter[k].type : k \in 1..Len(counter)} |->
        counter[CHOOSE k \in 1..Len(counter) : counter[k].type = t].count]

\* field_types[normalized_key][type] += 1
FieldTypesAdd(ft, nk, t) ==
    IF nk \in DOMAIN ft
    THEN [ft EXCEPT ![nk] = CounterAdd(@, t)]
    ELSE [k \in DOMAIN ft \cup {nk} |->
            IF k = nk THEN <<[type |-> t, count |-> 1]>> ELSE ft[k]]

\* the inner loop `for key, value in item.items()` shared by _stream_analyze_array
\* and _infer_schema, from pair j on: the updated <<all_keys, field_types>>
RECURSIVE AccumulateRecord(_, _, _, _)
AccumulateRecord(keys, ft, pairs, j) ==
    IF j > Len(pairs) THEN <<keys, ft>>
    ELSE LET normalized_key == _normalize_key(pairs[j][1]) IN
         AccumulateRecord(keys \cup {<<normalized_key, pairs[j][1]>>},
                          FieldTypesAdd(ft, normalized_key, _infer_type(pairs[j][2])),
                          pairs, j + 1)

\* count / total as the exact fraction <<count, total>>; `x if d > 0 else 0`
Fraction(num, den) == IF den > 0 THEN <<num, den>> ELSE <<0, 1>>

_build_schema_from_types(keys, ft, total_records) ==
    [normalized_key \in {p[1] : p \in keys} |->
        LET type_counts == ft[normalized_key]
            total == CounterTotal(type_counts)
            top == MostCommon(type_counts)
        IN [original_keys |-> {p[2] : p \in {q \in keys : q[1] = normalized_key}},
            type |-> top.type,
            confidence |-> Fraction(top.count, total),
            type_distribution |-> CounterAsDict(type_counts),
            presence |-> IF total_records > 0 THEN <<total, total_records>> ELSE <<0, 1>>]]

\* the numbers of the sample records stored under a key that normalises to
\* normalized_key, in sample order (bool is an int in Python)
RECURSIVE NumericValues(_, _, _, _)
NumericValues(sample_records, normalized_key, i, j) ==
    IF i > Len(sample_records) THEN <<>>
    ELSE IF ~IsDict(sample_records[i]) \/ j > Len(sample_records[i].items)
         THEN NumericValues(sample_records, normalized_key, i + 1, 1)
    ELSE LET pair == sample_records[i].items[j] IN
         (IF _normalize_key(pair[1]) = normalized_key /\ pair[2].t \in {"int", "float", "bool"}
          THEN <<pair[2].n>> ELSE <<>>)
         \o NumericValues(sample_records, normalized_key, i, j + 1)

RECURSIVE SumFrom(_, _)
SumFrom(values, k) == IF k > Len(values) THEN 0 ELSE values[k] + SumFrom(values, k + 1)

RECURSIVE SumSquaresFrom(_, _)
SumSquaresFrom(values, k) ==
    IF k > Len(values) THEN 0 ELSE values[k] * values[k] + SumSquaresFrom(values, k + 1)

\* the k-th smallest of the values
KthSmallest(values, k) ==
    LET x == CHOOSE i \in 1..Len(values) :
                /\ Cardinality({j \in 1..Len(values) : values[j] < values[i]}) < k
                /\ Cardinality({j \in 1..Len(values) : values[j] <= values[i]}) >= k
    IN values[x]

\* min, max, mean, median, sample stddev and size of the values; mean and median
\* are exact fractions and stddev is given by its square, the sample variance
FieldStatistics(values) ==
    LET size == Len(values)
        total == SumFrom(values, 1)
    IN [min |-> KthSmallest(values, 1),
        max |-> KthSmallest(values, size),
        mean |-> <<total, size>>,
        median |-> IF size % 2 = 1
                   THEN <<KthSmallest(values, (size + 1) \div 2), 1>>
                   ELSE <<KthSmallest(values, size \div 2)
                             + KthSmallest(values, size \div 2 + 1), 2>>,
        stddev_squared |-> IF size > 1
                           THEN <<size * SumSquaresFrom(values, 1) - total * total,
                                  size * (size - 1)>>
                           ELSE <<0, 1>>,
        sample_size |-> size]

_calculate_statistics_from_samples(sample_records, schema) ==
    LET numeric == {k \in DOMAIN schema :
                        /\ schema[k].type \in {"int", "float"}
                        /\ Len(NumericValues(sample_records, k, 1, 1)) > 0}
    IN [k \in numeric |-> FieldStatistics(NumericValues(sample_records, k, 1, 1))]

synonyms ==
    << <<<<"i","d">>, <<"i","d","e","n","t","i","f","i","e","r">>>>, <<<<"n","a","m","e">>, <<"t","i","t","l","e">>>>, <<<<"d","e","s","c">>, <<"d","e","s","c","r","i","p","t","i","o","n">>>>,
       <<<<"i","m","g">>, <<"i","m","a","g","e">>>>, <<<<"p","i","c">>, <<"p","i","c","t","u","r","e">>>>, <<<<"c","r","e","a","t","e","d">>, <<"c","r","e","a","t","e","d","_","a","t">>>>,
       <<<<"u","p","d","a","t","e","d">>, <<"u","p","d","a","t","e","d","_","a","t">>>> >>

_are_synonyms(key1, key2) ==
    \E k \in 1..Len(synonyms) :
        \/ Contains(key1, synonyms[k][1]) /\ Contains(key2, synonyms[k][2])
        \/ Contains(key1, synonyms[k][2]) /\ Contains(key2, synonyms[k][1])

\* the pairs _detect_synonyms reports; which key of a pair comes first follows the
\* iteration order of the schema dict, so a pair is kept as a set
_detect_synonyms(schema) ==
    {{key1, key2} : <<key1, key2>> \in
        {p \in (DOMAIN schema) \X (DOMAIN schema) :
            p[1] # p[2] /\ (_are_synonyms(p[1], p[2]) \/ _are_synonyms(p[2], p[1]))}}

\* the entries of the inconsistencies list (the list order follows the schema dict)
_detect_inconsistencies_from_samples(sample_records, schema) ==
    {[type |-> "mixed_types", fields |-> {k}] :
        k \in {f \in DOMAIN schema : schema[f].confidence[1] < schema[f].confidence[2]}}
    \cup {[type |-> "potential_synonyms", fields |-> g] : g \in _detect_synonyms(schema)}

\* ---- the file's content ---------------------------------------------------
\* json_file = [kind, runs, value].  kind says what a parser meets: "empty",
\* "malformed" (no valid first token), "scalar", "object", "array", or
\* "truncated_array" (valid items, then a syntax error).  The items of an array
\* are run-length encoded: runs[k] = [n, item] is n consecutive equal items.

RECURSIVE ArrayLenFrom(_, _)
ArrayLenFrom(runs, k) == IF k > Len(runs) THEN 0 ELSE runs[k].n + ArrayLenFrom(runs, k + 1)

\* len(data)
ArrayLen(runs) == ArrayLenFrom(runs, 1)

RECURSIVE ItemAtFrom(_, _, _)
ItemAtFrom(runs, k, i) ==
    IF i <= runs[k].n THEN runs[k].item ELSE ItemAtFrom(runs, k + 1, i - runs[k].n)

\* data[i - 1]: the i-th item, counted from 1
ItemAt(runs, i) == ItemAtFrom(runs, 1, i)

\* self.log_reasoning(message)
Log(msg, args) == [msg |-> msg, args |-> args]

\* the log lines of _build_schema_from_types: one per element of all_keys, in the
\* set's iteration order, kept as one entry holding the set of lines
SchemaLog(keys, ft, total_records) ==
    IF keys = {} THEN <<>>
    ELSE <<Log("Field '{}': type={}, confidence={}, presence={}/{}",
               {<<p[1], p[2], MostCommon(ft[p[1]]).type,
                  Fraction(MostCommon(ft[p[1]]).count, CounterTotal(ft[p[1]])),
                  CounterTotal(ft[p[1]]), total_records>> : p \in keys})>>

\* the log lines of _detect_inconsistencies_from_samples
InconsistencyLog(schema) ==
    LET mixed == {k \in DOMAIN schema : schema[k].confidence[1] < schema[k].confidence[2]}
    IN <<Log("Detecting inconsistencies from samples", <<>>)>>
       \o (IF mixed = {} THEN <<>>
           ELSE <<Log("Inconsistency: field '{}' has mixed types: {}",
                      {<<k, schema[k].type_distribution>> : k \in mixed})>>)
       \o (IF _detect_synonyms(schema) = {} THEN <<>>
           ELSE <<Log("Potential synonym fields detected: {}", _detect_synonyms(schema))>>)

_analyze_object(data, log) ==
    LET pairs == data.items
        last(nk) == CHOOSE j \in 1..Len(pairs) :
                        /\ _normalize_key(pairs[j][1]) = nk
                        /\ \A k \in (j + 1)..Len(pairs) : _normalize_key(pairs[k][1]) # nk
    IN [record_count |-> 1,
        schema |-> [nk \in {_normalize_key(pairs[j][1]) : j \in 1..Len(pairs)} |->
                      [original_key |-> pairs[last(nk)][1],
                       type |-> _infer_type(pairs[last(nk)][2]),
                       confidence |-> <<1, 1>>,
                       presence |-> <<1, 1>>]],
        sample |-> _simplify_record(data, SIMPLIFY_MAX_DEPTH, 0),
        inconsistencies |-> {},
        statistics |-> <<>>,
        reasoning_log |-> log]

\* the for-loop of _extract_samples from index i (counted from 0) on
RECURSIVE ExtractStride(_, _, _, _, _)
ExtractStride(runs, i, step, sample_size, acc) ==
    IF i >= ArrayLen(runs) \/ Len(acc) >= sample_size THEN acc
    ELSE ExtractStride(runs, i + step, step, sample_size,
                       IF IsDict(ItemAt(runs, i + 1))
                       THEN Append(acc, _simplify_record(ItemAt(runs, i + 1),
                                                         SIMPLIFY_MAX_DEPTH, 0))
                       ELSE acc)

\* [self._simplify_record(item) for item in data if isinstance(item, dict)]
RECURSIVE SimplifiedDicts(_, _)
SimplifiedDicts(runs, i) ==
    IF i > ArrayLen(runs) THEN <<>>
    ELSE (IF IsDict(ItemAt(runs, i))
          THEN <<_simplify_record(ItemAt(runs, i), SIMPLIFY_MAX_DEPTH, 0)>> ELSE <<>>)
         \o SimplifiedDicts(runs, i + 1)

_extract_samples(runs, sample_size) ==
    IF ArrayLen(runs) <= sample_size THEN SimplifiedDicts(runs, 1)
    ELSE Take(ExtractStride(runs, 0, ArrayLen(runs) \div sample_size, sample_size, <<>>),
              sample_size)

\* the result dict both array paths build once schema and samples are known
ArrayResult(count, sample_records, schema, is_large_file, log) ==
    [record_count |-> count,
     sampled_count |-> Len(sample_records),
     schema |-> schema,
     samples |-> Take(sample_records, MAX_SAMPLE_SIZE),
     inconsistencies |-> _detect_inconsistencies_from_samples(sample_records, schema),
     statistics |-> _calculate_statistics_from_samples(sample_records, schema),
     is_large_file |-> is_large_file,
     reasoning_log |-> log]

\* _analyze_array on an empty list
EmptyArrayResult(log) ==
    [record_count |-> 0, schema |-> <<>>, samples |-> <<>>, inconsistencies |-> {},
     statistics |-> <<>>, reasoning_log |-> log]

ErrorResult(message) == [error |-> message]

\* ---- the analyze call, step by step ---------------------------------------

loopLocals == <<items_pos, record_count, samples, field_types, all_keys>>

\* a return statement of the call: the caller receives res; path names the array
\* path that built it ("streaming", "regular"), "none" for every other return
Return(res, path, log) ==
    /\ result' = res
    /\ returned' = IF path = "none" THEN returned ELSE [returned EXCEPT ![path] = res]
    /\ reasoning_log' = log
    /\ jpc' = "idle"

\* a for-loop over the array's items begins
EnterLoop(pc, log) ==
    /\ jpc' = pc
    /\ reasoning_log' = log
    /\ items_pos' = 0
    /\ record_count' = 0
    /\ samples' = <<>>
    /\ field_types' = <<>>
    /\ all_keys' = {}
    /\ UNCHANGED <<result, returned>>

\* _analyze_regular, entered with the log so far
_analyze_regular(log) ==
    LET log1 == Append(log, Log("Using regular JSON parser", <<>>)) IN
    CASE json_file.kind \in {"empty", "malformed", "truncated_array"} ->
            Return(ErrorResult("Failed to parse JSON"), "none", log1)
            /\ UNCHANGED loopLocals
      [] json_file.kind = "array" ->
            LET log2 == Append(log1, Log("Detected JSON array with {} items",
                                         <<ArrayLen(json_file.runs)>>))
            IN IF ArrayLen(json_file.runs) = 0
               THEN Return(EmptyArrayResult(log2), "regular", log2) /\ UNCHANGED loopLocals
               ELSE EnterLoop("schema_loop",
                        Append(log2, Log("Inferring unified schema from array of objects",
                                         <<>>)))
      [] json_file.kind = "object" ->
            LET log2 == Append(log1, Log("Detected single JSON object", <<>>))
            IN Return(_analyze_object(json_file.value, log2), "none", log2)
               /\ UNCHANGED loopLocals
      [] json_file.kind = "scalar" ->
            Return(ErrorResult("JSON must be an object or array"), "none", log1)
            /\ UNCHANGED loopLocals

StartLog(size) == <<Log("Starting JSON analysis (file size: {} bytes)", <<size>>)>>

\* analyze(file_path, file_size) taking the streaming branch: _analyze_streaming up
\* to its return or to the start of _stream_analyze_array's loop
AnalyzeStreaming(size) ==
    /\ jpc = "idle"
    /\ size > LARGE_FILE_THRESHOLD /\ ijson_available
    /\ json_file_size' = size
    /\ LET log1 == Append(StartLog(size), Log("Using streaming parser for large file", <<>>))
           fallback == Append(log1, Log("Streaming parse failed: {}, falling back to regular parse",
                                         <<>>))
       IN CASE json_file.kind = "empty" ->
                    \* an empty input either yields no first event or makes the
                    \* parser raise, depending on the ijson backend
                    \/ Return(ErrorResult("Empty JSON file"), "none", log1)
                       /\ UNCHANGED loopLocals
                    \/ _analyze_regular(fallback)
            [] json_file.kind = "malformed" -> _analyze_regular(fallback)
            [] json_file.kind = "scalar" ->
                    Return(ErrorResult("JSON must be an object or array"), "none", log1)
                    /\ UNCHANGED loopLocals
            [] json_file.kind = "object" ->
                    Return(_analyze_object(json_file.value, log1), "none", log1)
                    /\ UNCHANGED loopLocals
            [] json_file.kind \in {"array", "truncated_array"} ->
                    EnterLoop("stream_loop", Append(log1, Log("Streaming JSON array", <<>>)))
    /\ UNCHANGED <<json_file, ijson_available, resolverVars, classifierVars, groupVars, storeVars, serVars, concVars, repeatVars>>

\* analyze(file_path, file_size) taking the else branch
AnalyzeRegular(size) ==
    /\ jpc = "idle"
    /\ ~(size > LARGE_FILE_THRESHOLD /\ ijson_available)
    /\ json_file_size' = size
    /\ _analyze_regular(
            IF size > LARGE_FILE_THRESHOLD
            THEN Append(StartLog(size),
                        Log("Warning: Large file but ijson not available, attempting regular parse",
                            <<>>))
            ELSE StartLog(size))
    /\ UNCHANGED <<json_file, ijson_available, resolverVars, classifierVars, groupVars, storeVars, serVars, concVars, repeatVars>>

\* _stream_analyze_array with presence taken over the samples held instead of
\* over min(record_count, 1000)
StreamResult_OverSamples(count, sample_records, keys, ft, log) ==
    LET total_records == Len(sample_records)
        schema == _build_schema_from_types(keys, ft, total_records)
        log1 == Append(log, Log("Detected JSON array with {} items (sampled {})",
                                <<count, Len(sample_records)>>))
                \o SchemaLog(keys, ft, total_records) \o InconsistencyLog(schema)
    IN <<ArrayResult(count, sample_records, schema, TRUE, log1), log1>>

\* the return of _stream_analyze_array after its loop
StreamResult(count, sample_records, keys, ft, log) ==
    LET total_records == IF count < STREAM_SCAN_LIMIT THEN count ELSE STREAM_SCAN_LIMIT
        schema == _build_schema_from_types(keys, ft, total_records)
        log1 == Append(log, Log("Detected JSON array with {} items (sampled {})",
                                <<count, Len(sample_records)>>))
                \o SchemaLog(keys, ft, total_records) \o InconsistencyLog(schema)
    IN <<ArrayResult(count, sample_records, schema, TRUE, log1), log1>>

\* the except branch of _stream_analyze_array
StreamError ==
    Return(ErrorResult("Failed to stream parse JSON"), "streaming",
           Append(reasoning_log, Log("Stream analysis error: {}", <<>>)))

\* one iteration of `for item in items`, the break and what follows it included
StreamItem ==
    /\ jpc = "stream_loop"
    /\ items_pos < ArrayLen(json_file.runs)
    /\ LET item == ItemAt(json_file.runs, items_pos + 1)
           count == record_count + 1
           sample_records ==
               IF Len(samples) < MAX_SAMPLE_SIZE /\ IsDict(item)
               THEN Append(samples, _simplify_record(item, SIMPLIFY_MAX_DEPTH, 0))
               ELSE samples
           acc == IF IsDict(item)
                  THEN AccumulateRecord(all_keys, field_types, item.items, 1)
                  ELSE <<all_keys, field_types>>
           stop == count >= STREAM_SCAN_LIMIT /\ Len(sample_records) >= MAX_SAMPLE_SIZE
           total == ArrayLen(json_file.runs)
       IN /\ items_pos' = items_pos + 1
          /\ samples' = sample_records
          /\ all_keys' = acc[1]
          /\ field_types' = acc[2]
          /\ IF ~stop
             THEN /\ record_count' = count
                  /\ UNCHANGED <<jpc, reasoning_log, result, returned>>
             ELSE IF json_file.kind = "truncated_array"
             THEN \* counting the remaining items runs the parser into the syntax error
                  /\ record_count' = count
                  /\ StreamError
             ELSE LET r == StreamResult(total, sample_records, acc[1], acc[2], reasoning_log)
                  IN /\ record_count' = total
                     /\ Return(r[1], "streaming", r[2])
    /\ UNCHANGED <<json_file, ijson_available, json_file_size,
                   resolverVars, classifierVars, groupVars, storeVars, serVars, concVars, repeatVars>>

\* the items run out: the loop ends and the result is built
StreamFinish ==
    /\ jpc = "stream_loop"
    /\ items_pos = ArrayLen(json_file.runs)
    /\ json_file.kind = "array"
    /\ LET r == StreamResult(record_count, samples, all_keys, field_types, reasoning_log)
       IN Return(r[1], "streaming", r[2])
    /\ UNCHANGED <<loopLocals, json_file, ijson_available, json_file_size,
                   resolverVars, classifierVars, groupVars, storeVars, serVars, concVars, repeatVars>>

\* the parser meets the syntax error while the loop asks for the next item
StreamRaise ==
    /\ jpc = "stream_loop"
    /\ items_pos = ArrayLen(json_file.runs)
    /\ json_file.kind = "truncated_array"
    /\ StreamError
    /\ UNCHANGED <<loopLocals, json_file, ijson_available, json_file_size,
                   resolverVars, classifierVars, groupVars, storeVars, serVars, concVars, repeatVars>>

\* one iteration of `for record in data` in _infer_schema
InferSchemaRecord ==
    /\ jpc = "schema_loop"
    /\ items_pos < ArrayLen(json_file.runs)
    /\ LET record == ItemAt(json_file.runs, items_pos + 1)
           acc == IF IsDict(record)
                  THEN AccumulateRecord(all_keys, field_types, record.items, 1)
                  ELSE <<all_keys, field_types>>
       IN /\ items_pos' = items_pos + 1
          /\ all_keys' = acc[1]
          /\ field_types' = acc[2]
    /\ UNCHANGED <<record_count, samples, jpc, reasoning_log, result, returned,
                   json_file, ijson_available, json_file_size,
                   resolverVars, classifierVars, groupVars, storeVars, serVars, concVars, repeatVars>>

\* _infer_schema returns and _analyze_array builds its result
AnalyzeArrayFinish ==
    /\ jpc = "schema_loop"
    /\ items_pos = ArrayLen(json_file.runs)
    /\ LET total_records == ArrayLen(json_file.runs)
           schema == _build_schema_from_types(all_keys, field_types, total_records)
           sample_records == _extract_samples(json_file.runs, MAX_SAMPLE_SIZE)
           log1 == reasoning_log \o SchemaLog(all_keys, field_types, total_records)
                   \o InconsistencyLog(schema)
       IN /\ samples' = sample_records
          /\ Return(ArrayResult(total_records, sample_records, schema, FALSE, log1),
                    "regular", log1)
    /\ UNCHANGED <<items_pos, record_count, field_types, all_keys,
                   json_file, ijson_available, json_file_size,
                   resolverVars, classifierVars, groupVars, storeVars, serVars, concVars, repeatVars>>

\* the analysed file is classified with the analysis result as its features
ANALYSED_FILENAME == <<"d","a","t","a",".","j","s","o","n">>

ClassifyAnalysis ==
    /\ jpc = "idle"
    /\ result # NotReturned
    /\ classification.status = "none"
    /\ metadata' = [filename |-> ANALYSED_FILENAME]
    /\ preview' = result
    /\ classification' = classify_file(metadata', preview')
    /\ UNCHANGED <<jsonVars, resolverVars, groupVars, storeVars, serVars, concVars, repeatVars>>

-----------------------------------------------------------------------------
(* Inputs of the schema-inference specification.                           *)

MaxArrayLen == 2

RecIdName == JObj(<< <<<<"i","d">>, JInt(1)>>, <<<<"n","a","m","e">>, JStr(<<"a","n","n">>)>> >>)
RecIdNameEmail ==
    JObj(<< <<<<"i","d">>, JInt(2)>>, <<<<"n","a","m","e">>, JStr(<<"b","o","b">>)>>, <<<<"e","m","a","i","l">>, JStr(<<"b","@","x",".","i","o">>)>> >>)
RecIdString == JObj(<< <<<<"i","d">>, JStr(<<"x","7">>)>> >>)
RecDuplicateNames == JObj(<< <<<<"U","s","e","r"," ","N","a","m","e">>, JInt(1)>>, <<<<"u","s","e","r","-","n","a","m","e">>, JInt(2)>> >>)
RecNested ==
    JObj(<< <<<<"i","d">>, JInt(3)>>,
            <<<<"t","i","t","l","e">>, JStr(<<"2","0","2","4","-","0","1","-","1","5">>)>>,
            <<<<"m","e","t","a">>, JObj(<< <<<<"a">>, JObj(<< <<<<"b">>, JObj(<< <<<<"c">>, JInt(1)>> >>)>> >>)>> >>)>> >>)
ScalarItem == JInt(5)

SmallItems ==
    {RecIdName, RecIdNameEmail, RecIdString, RecDuplicateNames, RecNested, ScalarItem}

FieldName(k) == <<"f">> \o IntChars(k)

\* a record one over each cap of _simplify_record: fields, array entries, characters
WideRecord ==
    JObj([k \in 1..(SIMPLIFY_MAX_FIELDS + 1) |->
            <<FieldName(k),
              IF k = 1 THEN JArr([i \in 1..(SIMPLIFY_MAX_ARRAY + 1) |-> JInt(i)])
              ELSE IF k = 2 THEN JStr([i \in 1..(SIMPLIFY_MAX_STRING + 1) |-> "x"])
              ELSE JInt(k)>>])

RecV(k) == JObj(<< <<<<"v">>, JInt(k)>> >>)

Run(count, item) == [n |-> count, item |-> item]

ArrayFile(runs) == [kind |-> "array", runs |-> runs, value |-> JNull]

SmallArrays ==
    {ArrayFile([i \in 1..Len(elems) |-> Run(1, elems[i])]) :
        elems \in UNION {[1..len -> SmallItems] : len \in 0..MaxArrayLen}}

\* id and name in all three records, email in one
ThreeRecords == ArrayFile(<<Run(1, RecIdName), Run(1, RecIdNameEmail), Run(1, RecIdName)>>)

\* twice the sample size: the first half holds v = 1, the second half v = 2
HalvesArray == ArrayFile(<<Run(MAX_SAMPLE_SIZE, RecV(1)), Run(MAX_SAMPLE_SIZE, RecV(2))>>)

\* one record more than the sample size: v = 2 in the last record only
JustOverSample == ArrayFile(<<Run(MAX_SAMPLE_SIZE, RecV(1)), Run(1, RecV(2))>>)

\* one record more than the streaming loop scans
LongHomogeneous == ArrayFile(<<Run(STREAM_SCAN_LIMIT + 1, RecIdName)>>)

\* no record among the first STREAM_SCAN_LIMIT items, one after them
ScalarsThenRecord == ArrayFile(<<Run(STREAM_SCAN_LIMIT, ScalarItem), Run(1, RecIdName)>>)

\* no record among the first STREAM_SCAN_LIMIT items, more than a sample's worth
\* after them: the loop stops past the scan limit
ScalarsThenRecords ==
    ArrayFile(<<Run(STREAM_SCAN_LIMIT, ScalarItem), Run(MAX_SAMPLE_SIZE + 1, RecIdName)>>)

\* one record short of a full sample, then STREAM_SCAN_LIMIT scalars, then
\* two records: the sample fills only after the scan limit
SplitRecords ==
    ArrayFile(<<Run(MAX_SAMPLE_SIZE - 1, RecIdNameEmail), Run(STREAM_SCAN_LIMIT, ScalarItem),
                Run(2, RecIdName)>>)

WideArray == ArrayFile(<<Run(1, WideRecord)>>)

\* {"rows": [[[{"x": 1}]]]}: containers inside an array value
RecArrayNested ==
    JObj(<< <<<<"r","o","w","s">>,
              JArr(<<JArr(<<JArr(<<JObj(<< <<<<"x">>, JInt(1)>> >>)>>)>>)>>)>> >>)

DeepArrayFile == ArrayFile(<<Run(1, RecArrayNested)>>)

TruncatedArrays ==
    {[kind |-> "truncated_array", runs |-> <<Run(count, RecIdName)>>, value |-> JNull] :
        count \in {1, STREAM_SCAN_LIMIT}}

OtherFiles ==
    {[kind |-> k, runs |-> <<>>, value |-> JNull] : k \in {"empty", "malformed"}}
    \cup {[kind |-> "scalar", runs |-> <<>>, value |-> ScalarItem]}
    \cup {[kind |-> "object", runs |-> <<>>, value |-> v] :
            v \in {RecIdName, RecDuplicateNames, RecNested, WideRecord}}

JsonFiles ==
    SmallArrays
    \cup {ThreeRecords, HalvesArray, LongHomogeneous, ScalarsThenRecord, WideArray,
          DeepArrayFile, JustOverSample, ScalarsThenRecords, SplitRecords}
    \cup TruncatedArrays \cup OtherFiles

\* a size under the streaming threshold and one over it
JsonFileSizes == {1024, LARGE_FILE_THRESHOLD + 1}

InitJson ==
    /\ json_file \in JsonFiles
    /\ ijson_available \in BOOLEAN
    /\ json_file_size = 0
    /\ jpc = "idle"
    /\ items_pos = 0
    /\ record_count = 0
    /\ samples = <<>>
    /\ field_types = <<>>
    /\ all_keys = {}
    /\ reasoning_log = <<>>
    /\ result = NotReturned
    /\ returned = [streaming |-> NotReturned, regular |-> NotReturned]
    /\ ResolverIdle
    /\ ClassifierIdle
    /\ GroupIdle
    /\ StoreIdle
    /\ SerializerIdle
    /\ ConcurrentIdle
    /\ RepeatIdle

NextJson ==
    \/ \E size \in JsonFileSizes : AnalyzeStreaming(size)
    \/ \E size \in JsonFileSizes : AnalyzeRegular(size)
    \/ StreamItem
    \/ StreamFinish
    \/ StreamRaise
    \/ InferSchemaRecord
    \/ AnalyzeArrayFinish
    \/ ClassifyAnalysis

SpecJson == InitJson /\ [][NextJson]_vars

-----------------------------------------------------------------------------
(* Properties of the schema-inference specification.                       *)

\* equality of two exact fractions
FracEq(a, b) == a[1] * b[2] = b[1] * a[2]

\* 0 <= a <= 1 for an exact fraction with positive denominator
FracInUnit(a) == 0 <= a[1] /\ a[1] <= a[2]

\* sum(d.values()) of a dict given as a function
RECURSIVE SumDictOver(_, _)
SumDictOver(d, ks) ==
    IF ks = {} THEN 0
    ELSE LET k == CHOOSE x \in ks : TRUE IN d[k] + SumDictOver(d, ks \ {k})
SumDict(d) == SumDictOver(d, DOMAIN d)

\* res is the result dict of an array analysis that went through
HasSchema(res) == "schema" \in DOMAIN res /\ "samples" \in DOMAIN res

\* the record has a key that normalises to nk
HasField(item, nk) ==
    IsDict(item) /\ \E j \in 1..Len(item.items) : _normalize_key(item.items[j][1]) = nk

\* how many items of the array are records holding the field nk
RECURSIVE RecordsContainingFrom(_, _, _)
RecordsContainingFrom(runs, nk, k) ==
    IF k > Len(runs) THEN 0
    ELSE (IF HasField(runs[k].item, nk) THEN runs[k].n ELSE 0)
         + RecordsContainingFrom(runs, nk, k + 1)
RecordsContaining(runs, nk) == RecordsContainingFrom(runs, nk, 1)

\* C4: analyze on unparseable input returns a failure result without raising, and
\* classifying the file with that result as its features gives type json,
\* category json_invalid, confidence 1.0.
C4_MalformedJsonClassifiedInvalid ==
    (json_file.kind \in {"malformed", "truncated_array"} /\ jpc = "idle"
        /\ result # NotReturned) =>
        /\ "error" \in DOMAIN result
        /\ classification.status # "none" =>
              /\ classification.status = "returned"
              /\ classification.type = "json"
              /\ classification.category = "json_invalid"
              /\ classification.confidence = 100

SameSchema(s1, s2) ==
    /\ DOMAIN s1 = DOMAIN s2
    /\ \A f \in DOMAIN s1 :
          /\ s1[f].type = s2[f].type
          /\ s1[f].type_distribution = s2[f].type_distribution
          /\ FracEq(s1[f].confidence, s2[f].confidence)
          /\ FracEq(s1[f].presence, s2[f].presence)

SameStatistics(t1, t2) ==
    /\ DOMAIN t1 = DOMAIN t2
    /\ \A f \in DOMAIN t1 :
          /\ t1[f].min = t2[f].min
          /\ t1[f].max = t2[f].max
          /\ t1[f].sample_size = t2[f].sample_size
          /\ FracEq(t1[f].mean, t2[f].mean)
          /\ FracEq(t1[f].median, t2[f].median)
          /\ FracEq(t1[f].stddev_squared, t2[f].stddev_squared)

\* C5: for the same array, the streaming path and the eager path return the same
\* schema (fields, types, type distributions, confidence, presence) and the same
\* statistics.
C5_ModeInvariantSchema ==
    (HasSchema(returned.streaming) /\ HasSchema(returned.regular)) =>
        /\ SameSchema(returned.streaming.schema, returned.regular.schema)
        /\ SameStatistics(returned.streaming.statistics, returned.regular.statistics)

\* C6: a streaming result over an array of N items has record_count = N,
\* sampled_count <= 50, and for every field the sum of type_distribution is the
\* number of records of the whole array that contain the field.
C6_StreamingSchemaFromFullStream ==
    HasSchema(returned.streaming) =>
        /\ returned.streaming.record_count = ArrayLen(json_file.runs)
        /\ returned.streaming.sampled_count <= MAX_SAMPLE_SIZE
        /\ \A f \in DOMAIN returned.streaming.schema :
              SumDict(returned.streaming.schema[f].type_distribution)
                 = RecordsContaining(json_file.runs, f)

\* every string and array inside the value is within its cap
RECURSIVE WithinCaps(_)
WithinCaps(v) ==
    CASE v.t = "string" -> Len(v.items) <= SIMPLIFY_MAX_STRING
      [] v.t = "array" ->
            /\ Len(v.items) <= SIMPLIFY_MAX_ARRAY
            /\ \A i \in 1..Len(v.items) : WithinCaps(v.items[i])
      [] v.t = "object" ->
            /\ Len(v.items) <= SIMPLIFY_MAX_FIELDS
            /\ \A i \in 1..Len(v.items) : WithinCaps(v.items[i][2])
      [] OTHER -> TRUE

\* C7: in both modes the result holds at most 50 samples, and every sample has at
\* most 20 fields, arrays of at most 5 entries and strings of at most 200
\* characters, truncation markers counted.
C7_SamplesWithinCaps ==
    (jpc = "idle" /\ HasSchema(result)) =>
        /\ Len(result.samples) <= MAX_SAMPLE_SIZE
        /\ \A i \in 1..Len(result.samples) : WithinCaps(result.samples[i])

\* C8: every schema field of an array result has confidence and presence in
\* [0,1], and a field present in every record of a small eagerly parsed array has
\* presence 1.
C8_ConfidencePresenceInUnitInterval ==
    (jpc = "idle" /\ HasSchema(result)) =>
        /\ \A f \in DOMAIN result.schema :
              /\ FracInUnit(result.schema[f].confidence)
              /\ FracInUnit(result.schema[f].presence)
        /\ (~Get(result, "is_large_file", FALSE)
               /\ ArrayLen(json_file.runs) <= MAX_SAMPLE_SIZE) =>
              \A f \in DOMAIN result.schema :
                 (\A k \in 1..Len(json_file.runs) : HasField(json_file.runs[k].item, f))
                    => FracEq(result.schema[f].presence, <<1, 1>>)

\* C9: for every schema field of an array result, in either mode, the type is a
\* most frequent type of type_distribution, confidence is that type's count over
\* the distribution's sum, and presence is the sum over the number of items the
\* histogram loop went through.
C9_TypeConfidencePresenceFormulas ==
    (jpc = "idle" /\ HasSchema(result) /\ items_pos > 0) =>
        \A f \in DOMAIN result.schema :
            LET dist == result.schema[f].type_distribution IN
            /\ result.schema[f].type \in DOMAIN dist
            /\ \A t \in DOMAIN dist : dist[t] <= dist[result.schema[f].type]
            /\ FracEq(result.schema[f].confidence,
                      <<dist[result.schema[f].type], SumDict(dist)>>)
            /\ FracEq(result.schema[f].presence, <<SumDict(dist), items_pos>>)

-----------------------------------------------------------------------------
(* Similarity grouping: backend/rules/rules.py                             *)
(* A file is a record of the fields the rule engine reads: id, filename,   *)
(* file_type, phash = analysis.image.phash (<<>> when missing or empty),   *)
(* tfidf = analysis.text.tfidf (<<>> when missing or empty),               *)
(* image_category = analysis.image.category.category, schema_fields = the  *)
(* keys of analysis.json.schema, level = analysis.text.readability.level   *)
(* ("" when missing).  A Python value that may be a str or an int is       *)
(* [py, s, i], so that == between the two kinds is computed and is false.  *)

StrVal(s) == [py |-> "str", s |-> s, i |-> 0]
IntVal(i) == [py |-> "int", s |-> "", i |-> i]

\* the membership tests `if i in processed` / `if j in processed`
AlreadyProcessed_Never(j, processed) == FALSE
AlreadyProcessed(j, processed) == j \in processed

\* sum(c1 != c2 for c1, c2 in zip(phash1, phash2))
Hamming(phash1, phash2) ==
    Cardinality({k \in 1..Len(phash1) : k <= Len(phash2) /\ phash1[k] # phash2[k]})

\* the similarity without the guard on the two lengths
_phash_similarity_NoLengthCheck(phash1, phash2) ==
    <<Len(phash1) - Hamming(phash1, phash2), Len(phash1)>>

\* 1 - hamming / len(phash1) as an exact fraction
_phash_similarity(phash1, phash2) ==
    IF Len(phash1) # Len(phash2) THEN <<0, 1>>
    ELSE <<Len(phash1) - Hamming(phash1, phash2), Len(phash1)>>

\* similarity > num/den
Above(similarity, num, den) == similarity[1] * den > num * similarity[2]

\* the inner for-loop of _group_by_phash from index j on: <<group, processed>>
RECURSIVE PhashInner(_, _, _, _, _)
PhashInner(image_files, i, j, group, processed) ==
    IF j > Len(image_files) THEN <<group, processed>>
    ELSE IF AlreadyProcessed(j, processed) \/ Len(image_files[j].phash) = 0
         THEN PhashInner(image_files, i, j + 1, group, processed)
    ELSE IF Above(_phash_similarity(image_files[i].phash, image_files[j].phash), 9, 10)
         THEN PhashInner(image_files, i, j + 1, Append(group, image_files[j]),
                         processed \cup {j})
    ELSE PhashInner(image_files, i, j + 1, group, processed)

\* the outer for-loop of _group_by_phash from index i on
RECURSIVE PhashOuter(_, _, _, _)
PhashOuter(image_files, i, groups, processed) ==
    IF i > Len(image_files) THEN groups
    ELSE IF AlreadyProcessed(i, processed) \/ Len(image_files[i].phash) = 0
         THEN PhashOuter(image_files, i + 1, groups, processed)
    ELSE LET r == PhashInner(image_files, i, i + 1, <<image_files[i]>>, processed \cup {i})
         IN PhashOuter(image_files, i + 1,
                       IF Len(r[1]) > 1 THEN Append(groups, r[1]) ELSE groups, r[2])

_group_by_phash(image_files) == PhashOuter(image_files, 1, <<>>, {})

\* the first entry of similarities1 whose document_index == file2["id"] decides;
\* similarities are hundredths
RECURSIVE FirstMatchingSimilarity(_, _, _)
FirstMatchingSimilarity(similarities1, id2, k) ==
    IF k > Len(similarities1) THEN 0
    ELSE IF similarities1[k].document_index = id2 THEN similarities1[k].similarity
    ELSE FirstMatchingSimilarity(similarities1, id2, k + 1)

_text_similarity(file1, file2) ==
    IF DOMAIN file1.tfidf = {} \/ DOMAIN file2.tfidf = {} THEN 0
    ELSE FirstMatchingSimilarity(Get(file1.tfidf, "similarities", <<>>), file2.id, 1)

RECURSIVE ContentInner(_, _, _, _, _)
ContentInner(text_files, i, j, group, processed) ==
    IF j > Len(text_files) THEN <<group, processed>>
    ELSE IF AlreadyProcessed(j, processed)
         THEN ContentInner(text_files, i, j + 1, group, processed)
    ELSE IF _text_similarity(text_files[i], text_files[j]) > 70
         THEN ContentInner(text_files, i, j + 1, Append(group, text_files[j]),
                           processed \cup {j})
    ELSE ContentInner(text_files, i, j + 1, group, processed)

RECURSIVE ContentOuter(_, _, _, _)
ContentOuter(text_files, i, groups, processed) ==
    IF i > Len(text_files) THEN groups
    ELSE IF AlreadyProcessed(i, processed)
         THEN ContentOuter(text_files, i + 1, groups, processed)
    ELSE LET r == ContentInner(text_files, i, i + 1, <<text_files[i]>>, processed \cup {i})
         IN ContentOuter(text_files, i + 1,
                         IF Len(r[1]) > 1 THEN Append(groups, r[1]) ELSE groups, r[2])

_group_by_content(text_files) == ContentOuter(text_files, 1, <<>>, {})

\* the groups _find_similar_files keeps of a list of groups, under their names
\* prefix + str(idx), idx counted from 0
NamedGroups(prefix, groups) ==
    LET kept == {k \in 1..Len(groups) : Len(groups[k]) > 1}
    IN [name \in {prefix \o ToString(k - 1) : k \in kept} |->
            groups[CHOOSE k \in kept : prefix \o ToString(k - 1) = name]]

\* the log lines _find_similar_files writes for a list of groups
RECURSIVE FoundLog(_, _, _)
FoundLog(msg, groups, k) ==
    IF k > Len(groups) THEN <<>>
    ELSE (IF Len(groups[k]) > 1 THEN <<Log(msg, <<Len(groups[k])>>)>> ELSE <<>>)
         \o FoundLog(msg, groups, k + 1)

ImageFiles(fs) == SelectSeq(fs, LAMBDA f : f.file_type = "image")
TextFiles(fs) == SelectSeq(fs, LAMBDA f : f.file_type = "text")

PhashGroups(fs) == IF Len(ImageFiles(fs)) > 1 THEN _group_by_phash(ImageFiles(fs)) ELSE <<>>
TfidfGroups(fs) == IF Len(TextFiles(fs)) > 1 THEN _group_by_content(TextFiles(fs)) ELSE <<>>

\* the dict union of two dicts with disjoint keys
DictUnion(d1, d2) ==
    [k \in DOMAIN d1 \cup DOMAIN d2 |-> IF k \in DOMAIN d1 THEN d1[k] ELSE d2[k]]

_find_similar_files(fs) ==
    DictUnion(NamedGroups("similar_images_", PhashGroups(fs)),
              NamedGroups("similar_texts_", TfidfGroups(fs)))

_get_image_category(file) ==
    IF file.image_category = "" THEN "unknown" ELSE file.image_category

_get_schema_type(file) ==
    IF file.schema_fields = {} THEN "unknown"
    ELSE IF "user_id" \in file.schema_fields \/ "username" \in file.schema_fields
         THEN "user_data"
    ELSE IF "product_id" \in file.schema_fields \/ "price" \in file.schema_fields
         THEN "product_data"
    ELSE IF "timestamp" \in file.schema_fields \/ "created_at" \in file.schema_fields
         THEN "time_series"
    ELSE "general"

_get_text_category(file) ==
    IF file.level \in {"very_easy", "easy"} THEN "simple"
    ELSE IF file.level \in {"standard", "fairly_easy"} THEN "standard"
    ELSE IF file.level \in {"difficult", "very_difficult", "fairly_difficult"}
         THEN "technical"
    ELSE "unknown"

\* the key of the group auto_group_files appends the file to
TypeGroupKey(file) ==
    IF file.file_type = "image" THEN "images_" \o _get_image_category(file)
    ELSE IF file.file_type = "json" THEN "json_" \o _get_schema_type(file)
    ELSE IF file.file_type = "text" THEN "text_" \o _get_text_category(file)
    ELSE "uncategorized"

\* the log lines of the first loop of auto_group_files
RECURSIVE GroupedAsLog(_, _)
GroupedAsLog(fs, k) ==
    IF k > Len(fs) THEN <<>>
    ELSE (IF fs[k].file_type \in {"image", "json", "text"}
          THEN <<Log("File {} grouped as {}", <<fs[k].filename, TypeGroupKey(fs[k])>>)>>
          ELSE <<>>)
         \o GroupedAsLog(fs, k + 1)

auto_group_files(fs) ==
    LET similar == _find_similar_files(fs)
        keys == {TypeGroupKey(fs[k]) : k \in 1..Len(fs)}
    IN [name \in keys \cup DOMAIN similar |->
            IF name \in DOMAIN similar THEN similar[name]
            ELSE SelectSeq(fs, LAMBDA f : TypeGroupKey(f) = name)]

\* one grouping run over the list
AutoGroupFiles ==
    /\ gpc = "ready"
    /\ similar_groups' = _find_similar_files(files)
    /\ auto_groups' = auto_group_files(files)
    /\ rule_log' = <<Log("Starting automatic file grouping", <<>>)>>
            \o GroupedAsLog(files, 1)
            \o FoundLog("Found {} similar images based on perceptual hash",
                        PhashGroups(files), 1)
            \o FoundLog("Found {} similar text files based on content",
                        TfidfGroups(files), 1)
    /\ gpc' = "done"
    /\ UNCHANGED <<files, resolverVars, classifierVars, jsonVars, storeVars, serVars, concVars, repeatVars>>

-----------------------------------------------------------------------------
(* Inputs of the grouping specification.                                   *)

MaxFiles == 4

\* str(imagehash.phash(img)): 64 bits as hexadecimal digits
PHASH_LENGTH == 16

File(id, type) ==
    [id |-> StrVal(id), filename |-> id \o ".dat", file_type |-> type, phash |-> <<>>,
     tfidf |-> <<>>, image_category |-> "", schema_fields |-> {}, level |-> ""]

Hash0 == [k \in 1..PHASH_LENGTH |-> "0"]
Hash1 == [Hash0 EXCEPT ![1] = "f"]
Hash2 == [Hash1 EXCEPT ![2] = "f"]
\* half of its digits differ from Hash0 and half from Hash1
HashHalf == [k \in 1..PHASH_LENGTH |-> IF 2 * k <= PHASH_LENGTH THEN "a" ELSE "0"]

Similarity(index, pct) == [document_index |-> index, similarity |-> pct]

ImgA == [File("a", "image") EXCEPT !.phash = Hash0, !.image_category = "photo"]
ImgB == [File("b", "image") EXCEPT !.phash = Hash1]
ImgC == [File("c", "image") EXCEPT !.phash = Hash2, !.image_category = "photo"]
ImgD == File("d", "image")
ImgE == [File("e", "image") EXCEPT !.phash = Take(Hash0, PHASH_LENGTH - 1)]
ImgF == [File("f", "image") EXCEPT !.phash = HashHalf]
TxtP == [File("p", "text") EXCEPT
            !.tfidf = [similarities |-> <<Similarity(StrVal("q"), 80)>>], !.level = "easy"]
TxtQ == [File("q", "text") EXCEPT
            !.tfidf = [similarities |-> <<Similarity(StrVal("p"), 80),
                                          Similarity(StrVal("r"), 75)>>],
            !.level = "standard"]
TxtR == [File("r", "text") EXCEPT !.level = "difficult"]
\* similarities as TextProcessor._calculate_tfidf writes them: document_index is
\* the int position (from 1) in [file_path] + corpus_paths, and corpus_paths lists
\* the stored text files, the analysed one included (its metadata is saved
\* before the analysis).  TxtS was analysed when the store listed s and t, TxtT
\* when it listed t alone.
TxtS == [File("s", "text") EXCEPT
            !.tfidf = [similarities |-> <<Similarity(IntVal(1), 100),
                                          Similarity(IntVal(2), 95)>>]]
TxtT == [File("t", "text") EXCEPT
            !.tfidf = [similarities |-> <<Similarity(IntVal(1), 100)>>]]
JsnU == [File("u", "json") EXCEPT !.schema_fields = {"user_id", "email"}]

FilePool == {ImgA, ImgB, ImgC, ImgD, ImgE, ImgF, TxtP, TxtQ, TxtR, TxtS, TxtT, JsnU}

\* every list of at most MaxFiles files of the pool, in every order
FileLists == UNION {[1..len -> FilePool] : len \in 0..MaxFiles}

InitGrouping ==
    /\ files \in FileLists
    /\ gpc = "ready"
    /\ similar_groups = <<>>
    /\ auto_groups = <<>>
    /\ rule_log = <<>>
    /\ ResolverIdle
    /\ ClassifierIdle
    /\ JsonIdle
    /\ StoreIdle
    /\ SerializerIdle
    /\ ConcurrentIdle
    /\ RepeatIdle

NextGrouping == AutoGroupFiles

SpecGrouping == InitGrouping /\ [][NextGrouping]_vars

\* the ids of the members of a cluster
MemberIds(group) == {group[k].id : k \in 1..Len(group)}

\* C10: the similarity clusters of one grouping run have at least 2 members each
\* and no file belongs to two of them.
C10_ClustersPluralAndDisjoint ==
    gpc = "done" =>
        /\ \A name \in DOMAIN similar_groups : Len(similar_groups[name]) >= 2
        /\ \A n1, n2 \in DOMAIN similar_groups :
              n1 # n2 => MemberIds(similar_groups[n1]) \cap MemberIds(similar_groups[n2]) = {}

\* a cluster was returned while an image with a hash stayed outside every cluster
\* although it is similar to a member of that cluster (not to its seed)
C10_Witness ==
    /\ gpc = "done"
    /\ \E name \in DOMAIN similar_groups, k \in 1..Len(files) :
          /\ files[k].file_type = "image"
          /\ \A n \in DOMAIN similar_groups : files[k].id \notin MemberIds(similar_groups[n])
          /\ \E m \in 1..Len(similar_groups[name]) :
                /\ Len(similar_groups[name][m].phash) > 0
                /\ Above(_phash_similarity(similar_groups[name][m].phash, files[k].phash),
                         9, 10)

-----------------------------------------------------------------------------
(* Properties of the grouping specification: the shape of the clusters.    *)

\* two hashes of the same non-zero length of which fewer than a tenth of the
\* digits differ: similarity > 0.9
SimilarHashes(p1, p2) ==
    /\ Len(p1) > 0
    /\ Len(p1) = Len(p2)
    /\ 10 * Cardinality({k \in 1..Len(p1) : p1[k] # p2[k]}) < Len(p1)

ImageClusters == {n \in DOMAIN similar_groups : similar_groups[n][1].file_type = "image"}
TextClusters == {n \in DOMAIN similar_groups : similar_groups[n][1].file_type = "text"}

\* the position of the first occurrence of the file in the input list
FirstIndex(f) == CHOOSE k \in 1..Len(files) : files[k] = f /\ \A j \in 1..(k - 1) : files[j] # f

Clustered(f) == \E n \in DOMAIN similar_groups : f.id \in MemberIds(similar_groups[n])

\* C11: image grouping is greedy and seed-based.  The first member of an image
\* cluster is its seed and comes first in input order; every other member has
\* a hash of similarity > 0.9 to the seed (never a missing hash or one of another
\* length); and an image left unclustered is not that similar to any seed.
C11_GreedySeedBasedImageClusters ==
    gpc = "done" =>
        /\ \A n \in ImageClusters :
              \A m \in 2..Len(similar_groups[n]) :
                 /\ SimilarHashes(similar_groups[n][1].phash, similar_groups[n][m].phash)
                 /\ FirstIndex(similar_groups[n][1]) <= FirstIndex(similar_groups[n][m])
        /\ \A k \in 1..Len(files) :
              (files[k].file_type = "image" /\ ~Clustered(files[k])) =>
                 \A n \in ImageClusters :
                    ~SimilarHashes(similar_groups[n][1].phash, files[k].phash)

\* two similar images share a cluster while a third image, at similarity 0.5 to
\* both of them, is in no cluster
C11_Witness ==
    /\ gpc = "done"
    /\ \E n \in ImageClusters, k \in 1..Len(files) :
          /\ Len(similar_groups[n]) = 2
          /\ similar_groups[n][1].id # similar_groups[n][2].id
          /\ files[k].file_type = "image"
          /\ ~Clustered(files[k])
          /\ \A m \in 1..2 :
                /\ Len(files[k].phash) = Len(similar_groups[n][m].phash)
                /\ 2 * Hamming(similar_groups[n][m].phash, files[k].phash) = Len(files[k].phash)


-----------------------------------------------------------------------------
(* Text clusters against the similarities the text analysis stored.        *)

\* the similarity file1's stored analysis records to the document at corpus
\* position index (hundredths; 0 when it records none)
RECURSIVE StoredSimilarityFrom(_, _, _)
StoredSimilarityFrom(similarities1, index, k) ==
    IF k > Len(similarities1) THEN 0
    ELSE IF similarities1[k].document_index = IntVal(index) THEN similarities1[k].similarity
    ELSE StoredSimilarityFrom(similarities1, index, k + 1)

StoredSimilarity(file1, index) ==
    StoredSimilarityFrom(Get(file1.tfidf, "similarities", <<>>), index, 1)

\* a text cluster seeded before position i of the text files holds the file
ClusteredBefore(f, i) ==
    \E n \in TextClusters :
       /\ f.id \in MemberIds(similar_groups[n])
       /\ \E k \in 1..(i - 1) : TextFiles(files)[k].id = similar_groups[n][1].id

\* C12: text grouping clusters document pairs by their precomputed similarity.
\* When the analysis stored for a seed document records a similarity > 0.7 to
\* another stored text document (the one at that corpus position) and neither is
\* already clustered, both are in the same similar_texts cluster.
C12_StoredSimilarityClustersTexts ==
    gpc = "done" =>
        \A i, j \in 1..Len(TextFiles(files)) :
           LET seed == TextFiles(files)[i]
               other == TextFiles(files)[j]
           IN (/\ i < j
               /\ seed.id # other.id
               /\ StoredSimilarity(seed, j) > 70
               /\ ~ClusteredBefore(seed, i)
               /\ ~ClusteredBefore(other, i))
              => \E n \in TextClusters :
                    {seed.id, other.id} \subseteq MemberIds(similar_groups[n])


-----------------------------------------------------------------------------
(* Properties of the classifier specification: calls without features.     *)

\* the confidence of _fallback_classification, in hundredths
FallbackConfidence == 40

\* C13: for every resolved type, classify_file called with no features (preview
\* absent or empty) returns a default of low confidence, no higher than the
\* extension fallback's 0.4; for a type without rules the category is
\* '<ext>_group' ('unknown_group' without an extension), subcategory 'fallback'.
C13_NoFeaturesLowConfidence ==
    (classification.status # "none" /\ Falsy(preview)) =>
        /\ classification.status = "returned"
        /\ classification.confidence <= FallbackConfidence
        /\ classification.type \notin {"image", "json", "pdf", "audio", "video", "text"} =>
              /\ classification.subcategories = <<"fallback">>
              /\ classification.category =
                    _fallback_classification(metadata.filename,
                                             SuffixLower(metadata.filename),
                                             classification.type).category


\* the feature map reached the rule chain of _classify_json
JsonRulesApplied ==
    /\ classification.status = "returned"
    /\ classification.type = "json"
    /\ ~Falsy(preview)
    /\ ~Get(preview, "parse_error", FALSE)

\* the SQL-suitability predicate and the semi-structured predicate of the tree
SqlSuitable(p) ==
    /\ Get(p, "shape", "unknown") = "array_of_objects"
    /\ Get(p, "field_consistency", 0) >= 95
    /\ Get(p, "max_depth", 0) <= 2
    /\ Get(p, "nested_ratio", 0) < 30

SemiStructured(p) ==
    /\ Get(p, "shape", "unknown") = "array_of_objects"
    /\ Get(p, "field_consistency", 0) >= 70

\* the (category, confidence) pairs the rules of the tree set
JsonRuleOutcomes ==
    { <<"json_flat_structured", 95>>, <<"json_semistructured", 80>>,
      <<"json_unstructured", 70>>, <<"json_nested", 85>>,
      <<"json_flat_structured", 75>>, <<"json_nested", 70>>,
      <<"json_unstructured", 60>> }

\* C14: the JSON rule tree is first-match-wins with the SQL-suitability rule
\* first.  An array-of-objects feature map with consistency >= 0.95, depth <= 2
\* and nested ratio < 0.3 is json_flat_structured, confidence 0.95, tagged
\* sql_ready, although the semi-structured predicate holds too; the
\* semi-structured outcome is set exactly when that predicate holds and the SQL
\* one does not; and category and confidence are always one rule's pair.
C14_SqlSuitabilityRuleFirst ==
    JsonRulesApplied =>
        /\ SqlSuitable(preview) =>
              /\ classification.category = "json_flat_structured"
              /\ classification.confidence = 95
              /\ \E k \in 1..Len(classification.subcategories) :
                    classification.subcategories[k] = "sql_ready"
        /\ classification.category = "json_semistructured"
              <=> (SemiStructured(preview) /\ ~SqlSuitable(preview))
        /\ <<classification.category, classification.confidence>> \in JsonRuleOutcomes

\* a feature map that passes both predicates was classified
C14_Witness ==
    /\ JsonRulesApplied
    /\ SqlSuitable(preview)
    /\ SemiStructured(preview)
    /\ classification.category = "json_flat_structured"


-----------------------------------------------------------------------------
(* Properties of the JSON specification: the inconsistencies list.         *)

\* the missing_field entries of the result that name the field
MissingFieldEntries(res, nk) ==
    {e \in res.inconsistencies : e.type = "missing_field" /\ nk \in e.fields}

\* the runs of records of the array that lack the field
RunsLacking(runs, nk) ==
    {k \in 1..Len(runs) : IsDict(runs[k].item) /\ ~HasField(runs[k].item, nk)}

\* C15: for every schema field whose presence is >= 50% but < 100% of the
\* records, the inconsistencies list has a missing_field entry for each record
\* that lacks the field; a field of presence < 50% or = 100% has none.
C15_MissingFieldEntries ==
    (jpc = "idle" /\ HasSchema(result)) =>
        \A f \in DOMAIN result.schema :
            LET presence == result.schema[f].presence IN
            IF 2 * presence[1] >= presence[2] /\ presence[1] < presence[2]
            THEN RunsLacking(json_file.runs, f) # {}
                    => MissingFieldEntries(result, f) # {}
            ELSE MissingFieldEntries(result, f) = {}


-----------------------------------------------------------------------------
(* Properties of the JSON specification: items that are not records.       *)

\* one iteration of `for record in data` of _infer_schema on <<all_keys, field_types>>
InferSchemaStep(acc, record) ==
    IF IsDict(record) THEN AccumulateRecord(acc[1], acc[2], record.items, 1) ELSE acc

\* the loop from item i on, as one fold
RECURSIVE AccumulateItems(_, _, _)
AccumulateItems(acc, runs, i) ==
    IF i > ArrayLen(runs) THEN acc
    ELSE AccumulateItems(InferSchemaStep(acc, ItemAt(runs, i)), runs, i + 1)

\* the schema _infer_schema returns for the array
_infer_schema(runs) ==
    LET keys_types == AccumulateItems(<<{}, <<>> >>, runs, 1)
    IN _build_schema_from_types(keys_types[1], keys_types[2], ArrayLen(runs))

\* the array without its scalar and array items
MapItemsOnly(runs) == SelectSeq(runs, LAMBDA r : IsDict(r.item))

\* C16: non-map items of the top-level array do not affect the schema.  The
\* schema of an array no longer than the sample size (both modes go through
\* every item of it) is the schema of the same array with its scalar and array
\* items removed: same fields, types, type distributions, confidences and
\* presences.
C16_NonMapItemsDoNotAffectSchema ==
    (/\ jpc = "idle"
     /\ HasSchema(result)
     /\ items_pos = ArrayLen(json_file.runs)
     /\ ArrayLen(json_file.runs) <= MAX_SAMPLE_SIZE)
        => SameSchema(result.schema, _infer_schema(MapItemsOnly(json_file.runs)))


-----------------------------------------------------------------------------
(* Category indices of the store: backend/storage/store.py                 *)
(* A JSON file on disk is the dict it holds (str, int and list values come *)
(* back from json.load as json.dump wrote them); a timestamp               *)
(* datetime.utcnow().isoformat() is the tick it was taken at.              *)

\* os.path.exists(path) is false
NoFile == [exists |-> FALSE]

\* d[k] = v
SetItem(d, k, v) == [x \in DOMAIN d \cup {k} |-> IF x = k THEN v ELSE d[x]]

\* get_metadata: the saved dict, None when metadata/<id>.json does not exist
get_metadata(file_id) ==
    IF file_id \in DOMAIN stored_metadata THEN stored_metadata[file_id] ELSE NoPreview

\* the index.json of the category, NoFile while it was never written
IndexOf(indices, category) ==
    IF category \in DOMAIN indices THEN indices[category] ELSE NoFile

\* the test that leaves the index as it is
AlreadyInIndex_Never(file_id, index) == FALSE

\* file_id in {f["file_id"] for f in index["files"]}
AlreadyInIndex(file_id, index) ==
    file_id \in {index.files[k].file_id : k \in 1..Len(index.files)}

\* the bounds of the store specification: the last tick of the clock and the
\* longest index an add still appends to
MaxClock == 1
MaxEntries == 3

StoreCall(file_id, category, value) ==
    [op |-> "add_file_to_group", file_id |-> file_id, category |-> category,
     value |-> value]

\* the ways add_file_to_group(file_id, category) can end when it starts with
\* the given indices at the given tick: the indices and the tick it leaves and
\* the value it returns; t[1], t[2], t[3] are what its three utcnow() calls return
AddOutcomes(indices, clock, file_id, category) ==
    LET md == get_metadata(file_id) IN
    IF Falsy(md)
    THEN {[indices |-> indices, clock |-> clock, value |-> FALSE]}
    ELSE LET index == IF IndexOf(indices, category) # NoFile
                      THEN indices[category]
                      ELSE [category |-> category, created_at |-> clock, files |-> <<>>]
         IN IF AlreadyInIndex(file_id, index)
            THEN {[indices |-> indices, clock |-> clock, value |-> TRUE]}
            ELSE IF Len(index.files) >= MaxEntries THEN {}
            ELSE {LET created == IF IndexOf(indices, category) # NoFile
                                 THEN index
                                 ELSE [index EXCEPT !.created_at = t[1]]
                      entry == [file_id |-> file_id,
                                filename |-> Get(md, "filename", "unknown"),
                                file_type |-> Get(md, "file_type", "unknown"),
                                added_at |-> t[2]]
                      appended == Append(created.files, entry)
                      saved == SetItem(SetItem([created EXCEPT !.files = appended],
                                               "updated_at", t[3]),
                                       "file_count", Len(appended))
                  IN [indices |-> SetItem(indices, category, saved), clock |-> t[3],
                      value |-> TRUE] :
                  t \in {u \in (clock..MaxClock) \X (clock..MaxClock) \X (clock..MaxClock) :
                            u[1] <= u[2] /\ u[2] <= u[3]}}

\* add_file_to_group(file_id, category)
AddFileToGroup(file_id, category) ==
    /\ \E out \in AddOutcomes(group_indices, utc_clock, file_id, category) :
          /\ group_indices' = out.indices
          /\ utc_clock' = out.clock
          /\ store_call' = StoreCall(file_id, category, out.value)
    /\ UNCHANGED <<stored_metadata, resolverVars, classifierVars, jsonVars, groupVars,
                   serVars, concVars, repeatVars>>

\* [f for f in index["files"] if f["file_id"] != file_id]
OtherEntries(entries, file_id) == SelectSeq(entries, LAMBDA f : f.file_id # file_id)

\* remove_file_from_group(file_id, category)
RemoveFileFromGroup(file_id, category) ==
    /\ LET index == IndexOf(group_indices, category)
           call == [op |-> "remove_file_from_group"]
       IN IF index = NoFile
          THEN /\ store_call' = SetItem(call, "value", FALSE)
               /\ UNCHANGED <<group_indices, utc_clock>>
          ELSE /\ store_call' = SetItem(call, "value", TRUE)
               /\ IF Len(OtherEntries(index.files, file_id)) # Len(index.files)
                  THEN \E t \in utc_clock..MaxClock :
                          /\ utc_clock' = t
                          /\ group_indices' =
                                SetItem(group_indices, category,
                                    SetItem(SetItem([index EXCEPT !.files =
                                                        OtherEntries(index.files, file_id)],
                                                    "updated_at", t),
                                            "file_count",
                                            Len(OtherEntries(index.files, file_id))))
                  ELSE UNCHANGED <<group_indices, utc_clock>>
    /\ UNCHANGED <<stored_metadata, resolverVars, classifierVars, jsonVars, groupVars,
                   serVars, concVars, repeatVars>>

\* file_data.get("category") or file_data.get("final_category"); "" is None
CategoryOf(file_data) ==
    IF Get(file_data, "category", "") # "" THEN file_data.category
    ELSE Get(file_data, "final_category", "")

\* the loop of rebuild_groups over all_files from its i-th entry on: the indices
\* and ticks it can end with
RECURSIVE RebuildOutcomes(_, _, _, _)
RebuildOutcomes(all_files, i, indices, clock) ==
    IF i > Len(all_files) THEN {[indices |-> indices, clock |-> clock]}
    ELSE LET file_data == all_files[i]
             file_id == Get(file_data, "id", "")
             category == CategoryOf(file_data)
         IN IF file_id # "" /\ category # ""
            THEN UNION {RebuildOutcomes(all_files, i + 1, out.indices, out.clock) :
                          out \in AddOutcomes(indices, clock, file_id, category)}
            ELSE RebuildOutcomes(all_files, i + 1, indices, clock)

\* get_all_files(): the saved dicts in one of the orders os.listdir can give
AllFilesOrders ==
    LET ids == {file_id \in DOMAIN stored_metadata : ~Falsy(stored_metadata[file_id])}
    IN {[k \in 1..Cardinality(ids) |-> stored_metadata[order[k]]] :
          order \in {o \in [1..Cardinality(ids) -> ids] :
                        \A a, b \in 1..Cardinality(ids) : a # b => o[a] # o[b]}}

\* a rebuild that would keep the indices it finds
ClearedGroups_Kept == group_indices

\* shutil.rmtree(self.groups_path); os.makedirs(...): no category index is left
ClearedGroups == <<>>

\* rebuild_groups(): the groups directory is removed and every file is added again
RebuildGroups ==
    /\ \E all_files \in AllFilesOrders :
          \E out \in RebuildOutcomes(all_files, 1, ClearedGroups, utc_clock) :
              /\ group_indices' = out.indices
              /\ utc_clock' = out.clock
    /\ store_call' = [op |-> "rebuild_groups", value |-> TRUE]
    /\ UNCHANGED <<stored_metadata, resolverVars, classifierVars, jsonVars, groupVars,
                   serVars, concVars, repeatVars>>

\* save_metadata(file_id, metadata): the upload handlers save the metadata of a
\* new file, the analysis handlers save it again with more keys
SaveMetadata(file_id, md) ==
    /\ stored_metadata' = SetItem(stored_metadata, file_id, md)
    /\ UNCHANGED <<group_indices, utc_clock, store_call,
                   resolverVars, classifierVars, jsonVars, groupVars, serVars, concVars, repeatVars>>

-----------------------------------------------------------------------------
(* Inputs of the store specification.                                      *)

FileIds == {"f1", "f2"}
Categories == {"image_photo", "json_flat_structured"}

\* metadata as the upload handlers build it (its "id" is the file id), before
\* and after a category is recorded, and dicts without the keys an index entry
\* copies, before and after a category is recorded
StoredMetadataInputs(file_id) ==
    IF file_id = "f1"
    THEN { [id |-> file_id, filename |-> "photo.png", file_type |-> "image"],
           [id |-> file_id, filename |-> "photo.png", file_type |-> "image",
            category |-> "image_photo"] }
    ELSE { [id |-> file_id, size |-> 10],
           [id |-> file_id, size |-> 10, final_category |-> "image_photo"],
           [id |-> file_id, size |-> 10, category |-> "json_flat_structured",
            final_category |-> "image_photo"] }

InitStore ==
    /\ StoreIdle
    /\ SerializerIdle
    /\ ConcurrentIdle
    /\ RepeatIdle
    /\ ResolverIdle
    /\ ClassifierIdle
    /\ JsonIdle
    /\ GroupIdle

NextStore ==
    \/ \E file_id \in FileIds :
          \E md \in StoredMetadataInputs(file_id) : SaveMetadata(file_id, md)
    \/ \E file_id \in FileIds, category \in Categories : AddFileToGroup(file_id, category)
    \/ \E file_id \in FileIds, category \in Categories :
          RemoveFileFromGroup(file_id, category)
    \/ RebuildGroups

SpecStore == InitStore /\ [][NextStore]_vars

-----------------------------------------------------------------------------
(* Properties of the store specification.                                  *)

IndexIds(index) ==
    IF index = NoFile THEN {} ELSE {index.files[k].file_id : k \in 1..Len(index.files)}

IndexFiles(index) == IF index = NoFile THEN <<>> ELSE index.files

\* no file id occurs twice in an index
NoDuplicateIds ==
    \A category \in DOMAIN group_indices :
        \A i, j \in 1..Len(group_indices[category].files) :
            i # j => group_indices[category].files[i].file_id
                        # group_indices[category].files[j].file_id

\* what one add_file_to_group call does to the indices
AddIsAppendOnlyAndIdempotent ==
    \A file_id \in FileIds, category \in Categories :
        AddFileToGroup(file_id, category) =>
            LET before == IndexOf(group_indices, category)
                after == IndexOf(group_indices', category)
            IN /\ \A other \in Categories \ {category} :
                     IndexOf(group_indices', other) = IndexOf(group_indices, other)
               /\ IF file_id \in IndexIds(before)
                  THEN store_call'.value = TRUE /\ after = before
                  ELSE IF store_call'.value
                  THEN /\ after # NoFile
                       /\ after.files = Append(IndexFiles(before),
                                               after.files[Len(after.files)])
                       /\ after.files[Len(after.files)].file_id = file_id
                       /\ after.file_count = Len(after.files)
                       /\ before # NoFile => after.created_at = before.created_at
                  ELSE after = before

\* C17: add_file_to_group is append-only and idempotent on a category index.
\* Adding an id already present returns success and leaves the index unchanged
\* (entries, order, added_at, file_count, updated_at); adding a new id appends
\* exactly one entry and leaves every existing entry unchanged; so after any
\* sequence of adds no file id occurs twice in an index.
C17_AddAppendOnlyIdempotent ==
    []NoDuplicateIds /\ [][AddIsAppendOnlyAndIdempotent]_vars

\* the last call added again the id that is first in an index of two entries,
\* after time had passed since that entry was written
C17_Witness ==
    /\ store_call.op = "add_file_to_group"
    /\ store_call.value = TRUE
    /\ LET index == IndexOf(group_indices, store_call.category)
       IN /\ index # NoFile
          /\ Len(index.files) = 2
          /\ index.files[1].file_id = store_call.file_id
          /\ index.files[1].added_at < utc_clock


-----------------------------------------------------------------------------
(* JSON sanitizer: backend/utils/serializers.py                            *)
(* A Python value is [t, v, items, keys]: t is type(value).__name__ (with  *)
(* numpy's module name), v the text of a scalar ("nan" and "inf" for the   *)
(* non-finite floats), items the members of a list, tuple or set or the    *)
(* values of a dict, keys the keys of a dict in the order of its values.   *)
(* The members of a set are listed in the order sorted() gives them when   *)
(* they can be ordered.                                                    *)

PyScalar(t, v) == [t |-> t, v |-> v, items |-> <<>>, keys |-> <<>>]
PyContainer(t, items) == [t |-> t, v |-> "", items |-> items, keys |-> <<>>]
PyDict(keys, values) == [t |-> "dict", v |-> "", items |-> values, keys |-> keys]

\* the call ended in an exception
PyRaised(error) == PyScalar("<raised>", error)

\* isinstance(data, (int, float)) for a value that is not a bool: numpy.float64
\* subclasses float, the other numpy scalars subclass neither
IsIntOrFloat(data) == data.t \in {"int", "float", "numpy.float64"}

\* the members of a set can be compared with <: all numbers or all strings
NumberTypes == {"bool", "int", "float", "Decimal", "numpy.int64", "numpy.float32",
                "numpy.float64"}
Sortable(items) ==
    \/ \A k \in 1..Len(items) : items[k].t \in NumberTypes
    \/ \A k \in 1..Len(items) : items[k].t = "str"

\* the comprehension over the members: the first exception raised inside it
\* leaves the call, otherwise the list (or dict) of the sanitized members
Collected(data, t, members) ==
    IF \E k \in 1..Len(members) : members[k].t = "<raised>"
    THEN members[CHOOSE k \in 1..Len(members) :
                    /\ members[k].t = "<raised>"
                    /\ \A j \in 1..(k - 1) : members[j].t # "<raised>"]
    ELSE [t |-> t, v |-> "", items |-> members, keys |-> data.keys]

RECURSIVE sanitize_for_json(_)
sanitize_for_json(data) ==
    IF data.t \in {"NoneType", "bool", "str"} THEN data
    ELSE IF data.t = "Decimal" THEN PyScalar("float", data.v)
    ELSE IF IsIntOrFloat(data) THEN data
    ELSE IF data.t = "numpy.int64" THEN PyScalar("int", data.v)
    ELSE IF data.t = "numpy.float32" THEN PyScalar("float", data.v)
    ELSE IF data.t \in {"datetime", "date"} THEN PyScalar("str", data.v)
    ELSE IF data.t = "dict"
         THEN Collected(data, "dict",
                        [k \in 1..Len(data.items) |-> sanitize_for_json(data.items[k])])
    ELSE IF data.t \in {"list", "tuple"}
         THEN Collected(PyContainer("list", <<>>), "list",
                        [k \in 1..Len(data.items) |-> sanitize_for_json(data.items[k])])
    ELSE IF data.t = "set"
         THEN IF Sortable(data.items)
              THEN Collected(PyContainer("list", <<>>), "list",
                             [k \in 1..Len(data.items) |->
                                 sanitize_for_json(data.items[k])])
              ELSE PyRaised("TypeError")
    ELSE PyScalar("str", data.v)

\* json.dumps(value, allow_nan=allow_nan) with the default encoder: "ok", or
\* the exception it raises
RECURSIVE json_dumps(_, _)
json_dumps(value, allow_nan) ==
    LET of_items == [k \in 1..Len(value.items) |-> json_dumps(value.items[k], allow_nan)]
        first_error ==
            IF \E k \in 1..Len(of_items) : of_items[k] # "ok"
            THEN of_items[CHOOSE k \in 1..Len(of_items) :
                             /\ of_items[k] # "ok"
                             /\ \A j \in 1..(k - 1) : of_items[j] = "ok"]
            ELSE "ok"
    IN
    IF value.t \in {"NoneType", "bool", "int", "str"} THEN "ok"
    ELSE IF value.t \in {"float", "numpy.float64"}
         THEN IF value.v \in {"nan", "inf"} /\ ~allow_nan THEN "ValueError" ELSE "ok"
    ELSE IF value.t \in {"list", "tuple"} THEN first_error
    ELSE IF value.t = "dict"
         THEN IF \E k \in 1..Len(value.keys) :
                    value.keys[k].t \notin {"str", "int", "float", "bool", "NoneType"}
              THEN "TypeError"
              ELSE first_error
    ELSE "TypeError"

\* LocalStore._save_json: sanitize, then json.dump to the file
SaveJson ==
    /\ ser_pc = "ready"
    /\ sanitized' = sanitize_for_json(py_value)
    /\ emitted' = [by |-> "store",
                   outcome |-> IF sanitized'.t = "<raised>" THEN sanitized'.v
                               ELSE json_dumps(sanitized', TRUE)]
    /\ ser_pc' = "done"
    /\ UNCHANGED <<py_value, resolverVars, classifierVars, jsonVars, groupVars, storeVars, concVars, repeatVars>>

\* an analyze endpoint: sanitize the analysis, then JSONResponse renders it with
\* allow_nan=False
AnalyzeResponse ==
    /\ ser_pc = "ready"
    /\ sanitized' = sanitize_for_json(py_value)
    /\ emitted' = [by |-> "endpoint",
                   outcome |-> IF sanitized'.t = "<raised>" THEN sanitized'.v
                               ELSE json_dumps(sanitized', FALSE)]
    /\ ser_pc' = "done"
    /\ UNCHANGED <<py_value, resolverVars, classifierVars, jsonVars, groupVars, storeVars, concVars, repeatVars>>

-----------------------------------------------------------------------------
(* Inputs of the sanitizer specification.                                  *)

\* the most members a list, tuple or set of the inputs has
MaxMembers == 2

JsonNativeScalars ==
    { PyScalar("NoneType", "None"), PyScalar("bool", "True"), PyScalar("int", "5"),
      PyScalar("float", "1.5"), PyScalar("str", "a") }

PyScalars ==
    JsonNativeScalars \cup
    { PyScalar("float", "nan"), PyScalar("Decimal", "12.45"), PyScalar("Decimal", "nan"),
      PyScalar("numpy.int64", "5"), PyScalar("numpy.float32", "1.23"),
      PyScalar("numpy.float64", "2.5"), PyScalar("datetime", "2024-01-01T00:00:00"),
      PyScalar("bytes", "b"), PyScalar("Path", "/tmp/x") }

PySequencesOf(values) ==
    UNION {[1..len -> values] : len \in 0..MaxMembers}

\* a set holds no member twice
PySetsOf(values) ==
    {m \in PySequencesOf(values) : \A i, j \in 1..Len(m) : i # j => m[i] # m[j]}

PyKeys ==
    { PyScalar("str", "k"), PyScalar("int", "1"), PyScalar("Decimal", "1.5"),
      PyContainer("tuple", <<PyScalar("int", "1"), PyScalar("int", "2")>>) }

FlatValues ==
    PyScalars
    \cup {PyContainer(t, m) : t \in {"list", "tuple"}, m \in PySequencesOf(PyScalars)}
    \cup {PyContainer("set", m) : m \in PySetsOf(PyScalars)}
    \cup {PyDict(<<>>, <<>>)}
    \cup {PyDict(<<k>>, <<x>>) : k \in PyKeys, x \in PyScalars}

PyValues ==
    FlatValues
    \cup {PyContainer("list", <<x>>) : x \in FlatValues}
    \cup {PyDict(<<PyScalar("str", "analysis")>>, <<x>>) : x \in FlatValues}

InitSerializer ==
    /\ py_value \in PyValues
    /\ ser_pc = "ready"
    /\ sanitized = [t |-> "NoneType"]
    /\ emitted = [by |-> "nobody"]
    /\ ResolverIdle
    /\ ClassifierIdle
    /\ JsonIdle
    /\ GroupIdle
    /\ StoreIdle
    /\ ConcurrentIdle
    /\ RepeatIdle

NextSerializer == SaveJson \/ AnalyzeResponse

SpecSerializer == InitSerializer /\ [][NextSerializer]_vars

-----------------------------------------------------------------------------
(* Properties of the sanitizer specification.                              *)

\* a tree of JSON-native values: null, bool, int, float, str, list, and dict
\* with such values, at every depth
RECURSIVE JsonNative(_)
JsonNative(value) ==
    \/ value.t \in {"NoneType", "bool", "int", "float", "numpy.float64", "str"}
    \/ /\ value.t \in {"list", "dict"}
       /\ \A k \in 1..Len(value.items) : JsonNative(value.items[k])

\* a JSON-native tree without numpy.float64 objects: built of the plain types
RECURSIVE PlainJsonNative(_)
PlainJsonNative(value) ==
    \/ value.t \in {"NoneType", "bool", "int", "float", "str"}
    \/ /\ value.t \in {"list", "dict"}
       /\ \A k \in 1..Len(value.items) : PlainJsonNative(value.items[k])

\* C18: sanitize_for_json maps every value tree to a tree of JSON-native values
\* only; Decimal and numpy floats become float, numpy integers become int, and a
\* value already JSON-native is returned unchanged; so what the store writes and
\* what the analyze endpoints return is JSON-encodable.
C18_SanitizedIsJsonEncodable ==
    ser_pc = "done" =>
        /\ sanitized.t # "<raised>"
        /\ JsonNative(sanitized)
        /\ py_value.t \in {"Decimal", "numpy.float32"} => sanitized.t = "float"
        /\ py_value.t = "numpy.int64" => sanitized.t = "int"
        /\ PlainJsonNative(py_value) => sanitized = py_value
        /\ emitted.outcome = "ok"


\* ---- two analyze calls on the one JSONProcessor instance -------------------
\* app.py builds one JSONProcessor for the process; analyze rebinds the
\* instance attribute reasoning_log to a fresh list, log_reasoning appends to
\* whichever list the attribute names when it runs, and the returned dict holds
\* the list the attribute names at the return.  Schema and samples are built
\* from locals of the call.

\* the messages analyze(f, size) hands to log_reasoning, in order, for a file
\* under the streaming threshold
LogCalls(f, size) ==
    LET log1 == Append(StartLog(size), Log("Using regular JSON parser", <<>>))
        total_records == ArrayLen(f.runs)
        keys_types == AccumulateItems(<<{}, <<>> >>, f.runs, 1)
    IN IF f.kind = "object"
       THEN Append(log1, Log("Detected single JSON object", <<>>))
       ELSE LET log2 == Append(log1, Log("Detected JSON array with {} items",
                                         <<total_records>>))
            IN IF total_records = 0 THEN log2
               ELSE Append(log2, Log("Inferring unified schema from array of objects", <<>>))
                    \o SchemaLog(keys_types[1], keys_types[2], total_records)
                    \o InconsistencyLog(_infer_schema(f.runs))

\* the dict analyze(f, size) returns when its reasoning_log entry is log
AnalysisOf(f, log) ==
    IF f.kind = "object" THEN _analyze_object(f.value, log)
    ELSE IF ArrayLen(f.runs) = 0 THEN EmptyArrayResult(log)
    ELSE ArrayResult(ArrayLen(f.runs), _extract_samples(f.runs, MAX_SAMPLE_SIZE),
                     _infer_schema(f.runs), FALSE, log)

CallIds == DOMAIN analyze_calls

\* self.reasoning_log = []
ResetLog(c) ==
    /\ analyze_calls[c].pos = 0
    /\ log_lists' = Append(log_lists, <<>>)
    /\ self_reasoning_log' = Len(log_lists) + 1
    /\ analyze_calls' = [analyze_calls EXCEPT ![c].pos = 1]
    /\ UNCHANGED <<resolverVars, classifierVars, jsonVars, groupVars, storeVars, serVars, repeatVars>>

\* self.reasoning_log.append(...) for the call's next message
LogReasoning(c) ==
    LET call == analyze_calls[c]
        messages == LogCalls(call.file, call.size)
    IN /\ call.pos \in 1..Len(messages)
       /\ log_lists' = [log_lists EXCEPT ![self_reasoning_log] =
                            Append(@, messages[call.pos])]
       /\ analyze_calls' = [analyze_calls EXCEPT ![c].pos = @ + 1]
       /\ UNCHANGED <<self_reasoning_log,
                      resolverVars, classifierVars, jsonVars, groupVars, storeVars, serVars, repeatVars>>

\* return {..., "reasoning_log": self.reasoning_log}
ReturnAnalysis(c) ==
    LET call == analyze_calls[c]
    IN /\ call.pos = Len(LogCalls(call.file, call.size)) + 1
       /\ analyze_calls' = [analyze_calls EXCEPT
                               ![c].pos = @ + 1,
                               ![c].result = AnalysisOf(call.file,
                                                        [list |-> self_reasoning_log])]
       /\ UNCHANGED <<log_lists, self_reasoning_log,
                      resolverVars, classifierVars, jsonVars, groupVars, storeVars, serVars, repeatVars>>

\* ---- inputs ------------------------------------------------------------------

ConcurrentFiles ==
    {ArrayFile(<<>>), ArrayFile(<<Run(1, RecIdString)>>)}
    \cup {[kind |-> "object", runs |-> <<>>, value |-> v] : v \in {RecIdName, RecNested}}

ConcurrentSizes == {1024, 2048}

InitConcurrent ==
    /\ log_lists = << <<>> >>      \* the list __init__ created
    /\ self_reasoning_log = 1
    /\ analyze_calls \in [1..2 -> [file : ConcurrentFiles, size : ConcurrentSizes,
                                   pos : {0}, result : {NotReturned}]]
    /\ ResolverIdle
    /\ ClassifierIdle
    /\ JsonIdle
    /\ GroupIdle
    /\ StoreIdle
    /\ SerializerIdle
    /\ RepeatIdle

NextConcurrent ==
    \E c \in CallIds : ResetLog(c) \/ LogReasoning(c) \/ ReturnAnalysis(c)

SpecConcurrent == InitConcurrent /\ [][NextConcurrent]_vars

\* ---- properties of concurrent analyze calls ----------------------------------

\* the returned dict as its holder reads it: the list behind reasoning_log
ResultRead(c) ==
    [analyze_calls[c].result EXCEPT !.reasoning_log = log_lists[@.list]]

\* what the call returns when no other call runs on the instance
ResultAlone(c) ==
    AnalysisOf(analyze_calls[c].file,
               LogCalls(analyze_calls[c].file, analyze_calls[c].size))

\* C19: whatever the interleaving of two analyze calls on the shared instance,
\* the result each call returned (schema, samples and reasoning_log) is the
\* result of that call run alone: no entry of the other call in it, none lost
C19_ConcurrentAnalysesIndependent ==
    \A c \in CallIds :
        analyze_calls[c].result # NotReturned => ResultRead(c) = ResultAlone(c)


\* C20: one type verdict per file: once the resolver has recorded the file's
\* file_type and the classifier has detected the type of the same file (same
\* filename, same declared MIME), the two types are equal
C20_OneTypeVerdictPerFile ==
    (rpc = "done" /\ ctype # "") => ctype = file_type


\* ---- size of the analysis result ----------------------------------------------

\* C21: the counts that make up the stored metadata of a JSON file are bounded
\* whatever the input: a result never holds more sample records than
\* MAX_SAMPLE_SIZE, and its schema never holds more fields than the widest
\* record a sample may keep (SIMPLIFY_MAX_FIELDS, the one width constant of the
\* processor), however many distinct keys the input has
C21_ResultCountsBounded ==
    (jpc = "idle" /\ HasSchema(result)) =>
        /\ Len(Get(result, "samples", <<>>)) <= MAX_SAMPLE_SIZE
        /\ Cardinality(DOMAIN result.schema) <= SIMPLIFY_MAX_FIELDS


\* ---- one file classified twice ------------------------------------------------
\* AdvancedClassifier has no instance attribute and its class-level tables are
\* only read; classify_file reads the metadata and preview dicts it is given and
\* writes to neither.  A caller classifies its file, the module-level instance
\* serves other calls, and the caller passes the same two dicts again.

\* a variant that would use up the preview while classifying
CallerDicts_PreviewConsumed(md, p) == <<md, NoPreview>>

\* the metadata and preview dicts of the caller after classify_file has run on them
CallerDicts(md, p) == <<md, p>>

\* the caller's first classify_file(metadata, preview)
FirstCall ==
    /\ repeat_call.stage = "start"
    /\ classification' = classify_file(metadata, preview)
    /\ metadata' = CallerDicts(metadata, preview)[1]
    /\ preview' = CallerDicts(metadata, preview)[2]
    /\ repeat_call' = [stage |-> "first", first |-> classify_file(metadata, preview),
                       md |-> metadata, p |-> preview, others |-> FALSE]
    /\ UNCHANGED <<resolverVars, jsonVars, groupVars, storeVars, serVars, concVars>>

\* classify_file(md, p) for another file on the same instance
OtherCall(md, p) ==
    /\ repeat_call.stage \in {"first", "between"}
    /\ classification' = classify_file(md, p)
    /\ repeat_call' = [repeat_call EXCEPT !.stage = "between", !.others = TRUE]
    /\ UNCHANGED <<metadata, preview,
                   resolverVars, jsonVars, groupVars, storeVars, serVars, concVars>>

\* the caller's second classify_file(metadata, preview) with the same dicts
SecondCall ==
    /\ repeat_call.stage \in {"first", "between"}
    /\ classification' = classify_file(metadata, preview)
    /\ metadata' = CallerDicts(metadata, preview)[1]
    /\ preview' = CallerDicts(metadata, preview)[2]
    /\ repeat_call' = [repeat_call EXCEPT !.stage = "second"]
    /\ UNCHANGED <<resolverVars, jsonVars, groupVars, storeVars, serVars, concVars>>

\* ---- inputs ------------------------------------------------------------------

RepeatPreviews ==
    {NoPreview, [k \in {} |-> 0], [type |-> "image"]}
    \cup AudioPreviews
    \cup {p \in VideoPreviews : p.fps = 30}
    \cup {p \in JsonPreviews : "shape" \in DOMAIN p => (p.nested_ratio = 10 /\ p.max_depth = 1)}
    \cup {p \in ImagePreviews : p.has_alpha /\ p.quality.sharpness = 75
                                /\ p.format = <<"P","N","G">>}
    \cup {p \in PdfPreviews : p.page_count = 2 /\ ~p.has_forms}

OtherCallInputs ==
    { <<[filename |-> <<"s","h","o","t",".","p","n","g">>, mime_type |-> <<>>, size |-> 1000],
        [type |-> "image"]>>,
      <<[filename |-> <<"d","a","t","a",".","j","s","o","n">>, mime_type |-> <<>>, size |-> 1000],
        [parse_error |-> TRUE]>>,
      <<[filename |-> <<"R","E","A","D","M","E">>, mime_type |-> <<>>, size |-> 1000],
        NoPreview>> }

InitRepeat ==
    /\ metadata \in MetadataInputs
    /\ preview \in RepeatPreviews
    /\ classification = [status |-> "none"]
    /\ repeat_call = [stage |-> "start"]
    /\ ResolverIdle
    /\ JsonIdle
    /\ GroupIdle
    /\ StoreIdle
    /\ SerializerIdle
    /\ ConcurrentIdle

NextRepeat ==
    \/ FirstCall
    \/ \E call \in OtherCallInputs : OtherCall(call[1], call[2])
    \/ SecondCall

SpecRepeat == InitRepeat /\ [][NextRepeat]_vars

\* ---- properties of repeated classification -------------------------------------

C23_ExtensionLookupIgnoresCase ==
    (rpc = "done" /\ mime_type = <<>> /\ file_bytes = <<>>
     /\ ExtensionType(Lower(filename)) # "") =>
        /\ file_type = ExtensionType(Lower(filename))
        /\ method = "extension"

\* photo.JPG, no MIME, no bytes: resolved to image by its extension
C23_Witness ==
    /\ rpc = "done" /\ mime_type = <<>> /\ file_bytes = <<>>
    /\ filename = <<"p","h","o","t","o",".","J","P","G">>
    /\ file_type = "image"
    /\ method = "extension"


\* ---- nesting of a simplified record ---------------------------------------------

\* the largest of a sequence of naturals, 0 when it is empty
RECURSIVE MaxOf(_)
MaxOf(ns) == IF Len(ns) = 0 THEN 0
             ELSE LET rest == MaxOf(Tail(ns)) IN IF Head(ns) > rest THEN Head(ns) ELSE rest

\* levels of containers in a value: 0 for a scalar, 1 for a flat array or object
RECURSIVE ContainerLevels(_)
ContainerLevels(v) ==
    CASE v.t = "array" -> 1 + MaxOf([i \in 1..Len(v.items) |-> ContainerLevels(v.items[i])])
      [] v.t = "object" ->
            1 + MaxOf([i \in 1..Len(v.items) |-> ContainerLevels(v.items[i][2])])
      [] OTHER -> 0

\* C24: no value of a sample record is nested more than SIMPLIFY_MAX_DEPTH (2)
\* levels of containers below the record, objects and arrays inside arrays
\* included
C24_SampleNestingCapped ==
    (jpc = "idle" /\ HasSchema(result)) =>
        \A i \in 1..Len(result.samples) :
            ContainerLevels(result.samples[i]) <= 1 + SIMPLIFY_MAX_DEPTH


\* ---- where the samples come from --------------------------------------------------

\* the samples are the simplified records at positions 0, s, 2s, ... of the
\* array, and the last of these positions lies in the array's final s items
SampledAtStride(sample_records, runs, s) ==
    /\ Len(sample_records) >= 1
    /\ \A k \in 1..Len(sample_records) :
          /\ (k - 1) * s < ArrayLen(runs)
          /\ sample_records[k]
                = _simplify_record(ItemAt(runs, (k - 1) * s + 1), SIMPLIFY_MAX_DEPTH, 0)
    /\ (Len(sample_records) - 1) * s >= ArrayLen(runs) - s

\* C25: for an array of more than MAX_SAMPLE_SIZE records, in either mode, the
\* samples of the result are the records at positions 0, s, 2s, ... for one
\* stride s, reaching into the final stride-sized stretch of the array, rather
\* than the first records
C25_SamplesAtFixedStride ==
    (/\ jpc = "idle" /\ HasSchema(result)
     /\ ArrayLen(json_file.runs) > MAX_SAMPLE_SIZE
     /\ \A k \in 1..Len(json_file.runs) : IsDict(json_file.runs[k].item))
        => \E s \in 1..ArrayLen(json_file.runs) :
              SampledAtStride(result.samples, json_file.runs, s)


\* ---- confidence along the image rule chain ------------------------------------------

\* the categories of _classify_image in the order their rules are evaluated,
\* the default last
ImageRuleOrder ==
    <<"image_ai_generated_like", "image_screenshot", "image_scanned_document",
      "image_meme", "image_selfie_frontcamera", "image_digital_poster",
      "image_graphic_art", "image_photo_document", "image_photo_realworld",
      "image_photo">>

RulePosition(category) ==
    CHOOSE k \in 1..Len(ImageRuleOrder) : ImageRuleOrder[k] = category

\* C26: every assigned confidence lies in [0,1], and along a rule chain (here the
\* image chain) confidence falls with priority: the rule that classified this
\* image assigns at least the confidence of every rule evaluated after it,
\* whichever image that later rule classifies
C26_ConfidenceMonotoneInPriority ==
    classification.status = "returned" =>
        /\ 0 <= classification.confidence /\ classification.confidence <= 100
        /\ (classification.type = "image" /\ ~Falsy(preview)) =>
              \A q \in ImagePreviews :
                  LET later == ImageRuleChain(metadata, q,
                                              SuffixLower(Get(metadata, "filename", <<>>)))
                  IN RulePosition(later[1]) > RulePosition(classification.category)
                        => later[2] <= classification.confidence


\* ---- images at a common screen resolution -----------------------------------------

\* the call classifies an image whose preview has one of the common screen sizes
ScreenSizedImage ==
    /\ classification.status # "none"
    /\ ~Falsy(preview)
    /\ _detect_type(SuffixLower(Get(metadata, "filename", <<>>)),
                    Get(metadata, "mime_type", <<>>), Get(preview, "type", "")) = "image"
    /\ <<Get(preview, "width", 0), Get(preview, "height", 0)>> \in CommonScreens

\* C27: an image whose (width, height) is one of the common screen resolutions is
\* classified image_screenshot with confidence 0.85, whatever its extension and
\* EXIF flag: the AI-generated rule evaluated before the screenshot rule does not
\* match it
C27_CommonScreenIsScreenshot ==
    ScreenSizedImage =>
        /\ classification.status = "returned"
        /\ classification.category = "image_screenshot"
        /\ classification.confidence = 85
        /\ ~_is_ai_generated(preview, Get(preview, "has_exif", FALSE),
                             Get(preview, "width", 0), Get(preview, "height", 0),
                             SuffixLower(Get(metadata, "filename", <<>>)))

\* a 1440x900 WEBP without EXIF, sizes inside the AI rule's 500..2048 window
C27_Witness ==
    /\ ScreenSizedImage
    /\ preview.width = 1440 /\ preview.height = 900
    /\ ~preview.has_exif
    /\ SuffixLower(metadata.filename) = ".webp"
    /\ classification.category = "image_screenshot"


\* ---- rebuilding and removing ---------------------------------------------------------

\* the pairs <<category, file id>> the indices hold
Members(indices) ==
    UNION {{<<category, id>> : id \in IndexIds(indices[category])} :
             category \in DOMAIN indices}

\* the pairs a stored file with an id and a category asks for: the category
\* field, or final_category when there is none
ExpectedMembers ==
    {<<IF "category" \in DOMAIN stored_metadata[f] THEN stored_metadata[f].category
       ELSE stored_metadata[f].final_category,
       stored_metadata[f].id>> :
        f \in {g \in DOMAIN stored_metadata :
                 /\ "id" \in DOMAIN stored_metadata[g]
                 /\ {"category", "final_category"} \cap DOMAIN stored_metadata[g] # {}}}

\* what one rebuild_groups call does to the indices
RebuildGivesExpectedMembers ==
    RebuildGroups =>
        /\ Members(group_indices') = ExpectedMembers
        /\ \A category \in DOMAIN group_indices' :
              Cardinality(IndexIds(group_indices'[category]))
                 = Len(group_indices'[category].files)
        /\ Members(group_indices) = ExpectedMembers
              => Members(group_indices') = Members(group_indices)

\* C28: rebuild_groups rebuilds the indices from the metadata, whatever adds and
\* removes came before: afterwards each stored file with an id and a category is
\* once in the index of its own category and in no other, the indices hold no
\* other file, and a rebuild of rebuilt indices leaves the membership as it is
C28_RebuildFromMetadataIdempotent == [][RebuildGivesExpectedMembers]_vars

\* the last call was a rebuild, some time after the start, that put both files
\* into one index
C28_Witness ==
    /\ store_call.op = "rebuild_groups"
    /\ Members(group_indices) = {<<"image_photo", "f1">>, <<"image_photo", "f2">>}
    /\ group_indices["image_photo"].created_at > 0

\* every persisted index counts its entries and holds no id twice
IndexCountsItsEntries ==
    \A category \in DOMAIN group_indices :
        /\ group_indices[category].file_count = Len(group_indices[category].files)
        /\ Cardinality(IndexIds(group_indices[category]))
              = Len(group_indices[category].files)

\* an add without stored metadata and a remove without an index return False
\* and leave the indices as they are
RefusedCallsChangeNothing ==
    \A file_id \in FileIds, category \in Categories :
        /\ (AddFileToGroup(file_id, category) /\ Falsy(get_metadata(file_id)))
              => (store_call'.value = FALSE /\ group_indices' = group_indices)
        /\ (RemoveFileFromGroup(file_id, category)
            /\ IndexOf(group_indices, category) = NoFile)
              => (store_call'.value = FALSE /\ group_indices' = group_indices)

\* C30: after any sequence of add_file_to_group and remove_file_from_group calls
\* every persisted index has file_count equal to its number of entries and holds
\* each file id at most once; add_file_to_group for an id without stored
\* metadata and remove_file_from_group for a category without an index return
\* False and leave all indices unchanged
C30_IndexCountAndRefusals ==
    []IndexCountsItsEntries /\ [][RefusedCallsChangeNothing]_vars

\* the last call removed the only entry of an index: the index stays, empty,
\* with file_count 0
C30_Witness ==
    /\ store_call.op = "remove_file_from_group"
    /\ store_call.value = TRUE
    /\ \E category \in DOMAIN group_indices :
          /\ group_indices[category].files = <<>>
          /\ group_indices[category].file_count = 0


-----------------------------------------------------------------------------
(* The records behind the streaming histograms and the presence denominator. *)

\* the number of map items among the items from run k on, n items at most
RECURSIVE DictsAmongFrom(_, _, _)
DictsAmongFrom(runs, k, n) ==
    IF k > Len(runs) \/ n <= 0 THEN 0
    ELSE LET m == IF n < runs[k].n THEN n ELSE runs[k].n
         IN (IF IsDict(runs[k].item) THEN m ELSE 0) + DictsAmongFrom(runs, k + 1, n - m)

\* the map items among the first n items of the array
DictsAmong(runs, n) == DictsAmongFrom(runs, 1, n)

\* no record of the array has two keys with the same normalized name
NoRepeatedNames(runs) ==
    \A k \in 1..Len(runs) :
        IsDict(runs[k].item) =>
            \A i, j \in 1..Len(runs[k].item.items) :
                i # j => _normalize_key(runs[k].item.items[i][1])
                            # _normalize_key(runs[k].item.items[j][1])

\* min(record_count, 1000)
PresenceDenominator(count) == IF count < STREAM_SCAN_LIMIT THEN count ELSE STREAM_SCAN_LIMIT

\* the streaming loop is running over an array
Streaming == jpc = "stream_loop" /\ json_file.kind = "array"

\* the last call streamed an array and returned its analysis
StreamedArrayReturned ==
    /\ jpc = "idle"
    /\ json_file.kind = "array"
    /\ ijson_available
    /\ json_file_size > LARGE_FILE_THRESHOLD
    /\ HasSchema(result)

\* C29: in streaming mode, for an item sequence in which no record has two keys
\* with the same normalized name, the number of map records that have
\* contributed to the type histograms never exceeds min(record_count, 1000),
\* the denominator of presence, wherever maps and non-map items stand and
\* wherever the loop stops early; hence every presence is at most 1
C29_StreamedMapsWithinDenominator ==
    NoRepeatedNames(json_file.runs) =>
        /\ Streaming =>
              /\ DictsAmong(json_file.runs, items_pos) <= PresenceDenominator(record_count)
              /\ \A f \in DOMAIN field_types :
                    CounterTotal(field_types[f]) <= DictsAmong(json_file.runs, items_pos)
        /\ StreamedArrayReturned =>
              LET contributed == DictsAmong(json_file.runs, items_pos)
                  denominator == PresenceDenominator(result.record_count)
              IN /\ contributed <= denominator
                 /\ \A f \in DOMAIN result.schema :
                       /\ SumDict(result.schema[f].type_distribution) <= contributed
                       /\ result.schema[f].presence
                             = <<SumDict(result.schema[f].type_distribution), denominator>>
                       /\ result.schema[f].presence[1] <= result.schema[f].presence[2]

\* a streamed array whose loop stopped early, after the scan limit, with map
\* records behind its histograms and items left uncounted by the loop
C29_Witness ==
    /\ StreamedArrayReturned
    /\ NoRepeatedNames(json_file.runs)
    /\ items_pos > STREAM_SCAN_LIMIT
    /\ items_pos < result.record_count
    /\ DictsAmong(json_file.runs, items_pos) = MAX_SAMPLE_SIZE
    /\ \E f \in DOMAIN result.schema : result.schema[f].presence[1] > 0

====
